---- MODULE Spec2Model ----
(***************************************************************************)
(* Model of the lasergrid_render batch renderer: the plan loader           *)
(* (config.py), the command line entry point (cli.py) and the render       *)
(* pipeline (render_pipeline.py) driving the host scene.                   *)
(*                                                                         *)
(* Text that the program inspects character by character (variation names, *)
(* file formats) is a sequence of one-character strings; names that are    *)
(* only compared for equality (objects, materials, collections) are plain  *)
(* strings.  Numbers are integers.                                         *)
(***************************************************************************)
EXTENDS Integers, Sequences, FiniteSets, TLC

VARIABLES
    args,        \* parsed command line (plan path, overrides, dry_run) and host capabilities
    doc,         \* the parsed YAML document found at the plan path
    pc,          \* position of the program
    plan,        \* the RenderPlan returned by load_plan_from_file
    raised,      \* exception that left load_plan_from_file ("none" if none)
    exitCode,    \* value returned by main (-1 while it has not returned)
    vi,          \* 1-based index of the variation being processed
    mi,          \* 1-based index of the next entry of the current mutation list
    scene,       \* the host application's live scene
    trace,       \* log records emitted and host-application writes issued, in order
    files,       \* image files the host has written: <<path, variation index>>, in order
    outputDirMade, \* plan.output_dir.mkdir has run
    loaded,      \* the scene as it was when _apply_collection_visibility took up an override
    layer,       \* index of the view layer whose layer collections are being iterated
    pending,     \* the stack of _iter_layer_collections
    yielded      \* per view layer, the layer collections yielded so far

vars == <<args, doc, pc, plan, raised, exitCode, vi, mi, scene, trace, files, outputDirMade,
          loaded, layer, pending, yielded>>

\* the state of the traversal of the layer collections
iterVars == <<loaded, layer, pending, yielded>>

(***************************************************************************)
(* Bounds of the model.                                                    *)
(***************************************************************************)
MaxVariations == 2

\* largest layer-collection tree a view layer holds in the traversal specification
MaxNodes == 4

(***************************************************************************)
(* Generic helpers.                                                        *)
(***************************************************************************)
Range(s) == {s[i] : i \in 1..Len(s)}

SeqsUpTo(S, n) == UNION {[1..k -> S] : k \in 0..n}

Min(S) == CHOOSE m \in S : \A o \in S : m <= o

(***************************************************************************)
(* pathlib.Path.  A path is [abs, parts]; the file system is the set of    *)
(* absolute part sequences that exist.                                     *)
(***************************************************************************)
P(abs, parts) == [abs |-> abs, parts |-> parts]

RECURSIVE Normalize(_)
Normalize(parts) ==
    IF parts = <<>> THEN <<>>
    ELSE LET init == Normalize(SubSeq(parts, 1, Len(parts) - 1))
             last == parts[Len(parts)]
         IN  IF last = ".." THEN (IF init = <<>> THEN <<>> ELSE SubSeq(init, 1, Len(init) - 1))
             ELSE IF last = "." THEN init
             ELSE Append(init, last)

Parent(p) == P(p.abs, IF p.parts = <<>> THEN <<>> ELSE SubSeq(p.parts, 1, Len(p.parts) - 1))

Join(base, p) == IF p.abs THEN p ELSE P(base.abs, base.parts \o p.parts)

Cwd == P(TRUE, <<"w">>)

Resolve(p) == P(TRUE, Normalize(Join(Cwd, p).parts))

PlanFile == P(TRUE, <<"a", "b", "plan.yaml">>)

FileSystem ==
    { <<>>, <<"a">>, <<"a", "b">>, <<"w">>,
      <<"a", "b", "plan.yaml">>,
      <<"a", "scene.blend">>,
      <<"a", "b", "cube.blend">>,
      <<"w", "scene.blend">> }

Exists(p) == Normalize(Join(Cwd, p).parts) \in FileSystem

(***************************************************************************)
(* YAML values.  A scalar or sequence value is [k, v]:                     *)
(*   k = "seq"  : a list, v its (integer) items                            *)
(*   k = "num"  : a number, v = <<n>>                                      *)
(*   k = "numstr": a string that float() parses, v = <<n>>                 *)
(*   k = "str"  : a string float() rejects, v its characters               *)
(*   k = "null" : None                                                     *)
(***************************************************************************)
VSeq(v) == [k |-> "seq", v |-> v]
VNum(n) == [k |-> "num", v |-> <<n>>]
VNumStr(n) == [k |-> "numstr", v |-> <<n>>]
VStr(cs) == [k |-> "str", v |-> cs]
VNull == [k |-> "null", v |-> <<>>]

\* result of an evaluation that may raise: exc = "none" and a value, or an exception
Ok(val) == [exc |-> "none", val |-> val]
Raise(exc) == [exc |-> exc, val |-> <<>>]

\* the first exception raised when the results are evaluated in order
FirstExc(rs) ==
    IF \E i \in 1..Len(rs) : rs[i].exc # "none"
    THEN rs[Min({i \in 1..Len(rs) : rs[i].exc # "none"})].exc
    ELSE "none"

Vals(rs) == [i \in 1..Len(rs) |-> rs[i].val]

(***************************************************************************)
(* Raw plan document.  A mutation entry of a variation is a mapping        *)
(* (k = "map") holding the keys in `has`, or a string (k = "str": what     *)
(* iterating a string or a mapping yields).  A list-valued field is        *)
(* [k, items] with k the YAML type of the value found under the key.       *)
(***************************************************************************)
BlankEntry ==
    [k |-> "map", has |-> {}, name |-> "", visible |-> TRUE, material |-> "",
     node |-> "", socket |-> "", value |-> VNull, offset |-> VNull,
     primitive |-> <<>>, location |-> VNull, rotation |-> VNull, scale |-> VNull]

StrEntry == [BlankEntry EXCEPT !.k = "str"]

FAbsent == [k |-> "absent", items |-> <<>>]
FNull == [k |-> "null", items |-> <<>>]
FList(items) == [k |-> "list", items |-> items]
FStr(n) == [k |-> "str", items |-> [i \in 1..n |-> StrEntry]]
FMap(n) == [k |-> "map", items |-> [i \in 1..n |-> StrEntry]]
FInt == [k |-> "int", items |-> <<>>]

\* config.py _as_list
_as_list(value) ==
    IF value.k \in {"absent", "null"} THEN Ok(<<>>)
    ELSE IF value.k = "list" THEN Ok(value.items)
    ELSE IF value.k \in {"str", "map"} THEN Ok(value.items)
    ELSE Raise("PlanValidationError")

\* float(v) for each v of a sequence of numbers
FloatAll(v) == [i \in 1..Len(v) |-> v[i]]

\* config.py _as_tuple
_as_tuple(value) ==
    IF value.k = "null" THEN Raise("PlanValidationError")
    ELSE IF value.k = "num" THEN Raise("TypeError")
    ELSE IF Len(value.v) # 3 THEN Raise("PlanValidationError")
    ELSE IF value.k # "seq" THEN Raise("ValueError")
    ELSE Ok(FloatAll(value.v))

\* entry[key]
Subscript(entry, key) ==
    IF entry.k # "map" THEN Raise("TypeError")
    ELSE IF key \notin entry.has THEN Raise("KeyError")
    ELSE Ok(TRUE)

\* entry.get(key, ...)
GetAttr(entry) == IF entry.k # "map" THEN Raise("AttributeError") ELSE Ok(TRUE)

\* entry.get(field, default) handed to _as_tuple
VecOr(entry, key, val, default) == _as_tuple(IF key \in entry.has THEN val ELSE VSeq(default))

\* NodeInputOverride(material=entry["material"], ...)
BuildNodeOverride(entry) ==
    LET e == FirstExc(<<Subscript(entry, "material"), Subscript(entry, "node"),
                        Subscript(entry, "socket"), Subscript(entry, "value")>>)
    IN  IF e # "none" THEN Raise(e)
        ELSE Ok([material |-> entry.material, node |-> entry.node,
                 socket |-> entry.socket, value |-> entry.value])

\* ObjectTranslation(name=entry["name"], offset=_as_tuple(entry.get("offset", (0, 0, 0))))
BuildTranslation(entry) ==
    LET off == VecOr(entry, "offset", entry.offset, <<0, 0, 0>>)
        e == FirstExc(<<Subscript(entry, "name"), off>>)
    IN  IF e # "none" THEN Raise(e)
        ELSE Ok([name |-> entry.name, offset |-> off.val])

\* PrimitiveSpec(primitive=entry.get("primitive", "cube"), ...)
BuildAddition(entry) ==
    LET loc == VecOr(entry, "location", entry.location, <<0, 0, 0>>)
        rot == VecOr(entry, "rotation", entry.rotation, <<0, 0, 0>>)
        scl == VecOr(entry, "scale", entry.scale, <<1, 1, 1>>)
        e == FirstExc(<<GetAttr(entry), loc, rot, scl>>)
    IN  IF e # "none" THEN Raise(e)
        ELSE Ok([primitive |-> IF "primitive" \in entry.has THEN entry.primitive
                               ELSE <<"c", "u", "b", "e">>,
                 hasName |-> "name" \in entry.has, name |-> entry.name,
                 location |-> loc.val, rotation |-> rot.val, scale |-> scl.val,
                 hasMaterial |-> "material" \in entry.has, material |-> entry.material])

\* CollectionVisibilityOverride / ObjectVisibilityOverride(name=entry["name"],
\*     visible=bool(entry.get("visible", True)))
BuildVisibility(entry) ==
    LET e == FirstExc(<<Subscript(entry, "name")>>)
    IN  IF e # "none" THEN Raise(e)
        ELSE Ok([name |-> entry.name,
                 visible |-> IF "visible" \in entry.has THEN entry.visible ELSE TRUE])

\* the dataclass built from one entry of the list under key `field`
BuildEntry(field, entry) ==
    IF field = "node_overrides" THEN BuildNodeOverride(entry)
    ELSE IF field = "translations" THEN BuildTranslation(entry)
    ELSE IF field = "additions" THEN BuildAddition(entry)
    ELSE BuildVisibility(entry)

\* the values of the results, or the first exception raised among them
Collect(rs) == IF FirstExc(rs) # "none" THEN Raise(FirstExc(rs)) ELSE Ok(Vals(rs))

\* the comprehension over the list l that _as_list returned
BuildAll(field, l) ==
    IF l.exc # "none" THEN Raise(l.exc)
    ELSE Collect([i \in 1..Len(l.val) |-> BuildEntry(field, l.val[i])])

\* [Build(entry) for entry in _as_list(payload.get(field, []))]: the first exception
\* of _as_list, then of the entries in order
BuildList(payload, field) == BuildAll(field, _as_list(payload[field]))

(***************************************************************************)
(* RenderSettings and the render_settings mapping of a document.           *)
(***************************************************************************)
PNG == <<"P", "N", "G">>

\* config.py DEFAULT_RENDER_SETTINGS = RenderSettings()
DEFAULT_RENDER_SETTINGS ==
    [engine |-> "CYCLES", samples |-> 128, resolution_x |-> 1024, resolution_y |-> 1024,
     use_denoise |-> TRUE, file_format |-> PNG, color_mode |-> "RGB"]

\* a render_settings value: k = "absent", "null", "map" (keys in has) or
\* "notmap" (a non-empty value that is no mapping)
RSAbsent == [k |-> "absent", has |-> {}, val |-> DEFAULT_RENDER_SETTINGS]
RSMap(has, val) == [k |-> "map", has |-> has, val |-> val]
RSNotMap == [k |-> "notmap", has |-> {}, val |-> DEFAULT_RENDER_SETTINGS]
RSNull == [k |-> "null", has |-> {}, val |-> DEFAULT_RENDER_SETTINGS]

\* payload.get(key, default)
GetOr(payload, key, default) == IF key \in payload.has THEN payload.val[key] ELSE default

\* config.py _build_render_settings
_build_render_settings(payload) ==
    IF payload.k # "map" THEN Raise("PlanValidationError")
    ELSE LET defaults == DEFAULT_RENDER_SETTINGS
         IN  Ok([engine |-> GetOr(payload, "engine", defaults.engine),
                 samples |-> GetOr(payload, "samples", defaults.samples),
                 resolution_x |-> GetOr(payload, "resolution_x", defaults.resolution_x),
                 resolution_y |-> GetOr(payload, "resolution_y", defaults.resolution_y),
                 use_denoise |-> GetOr(payload, "use_denoise", defaults.use_denoise),
                 file_format |-> GetOr(payload, "file_format", defaults.file_format),
                 color_mode |-> GetOr(payload, "color_mode", defaults.color_mode)])

\* bool(value) of a mapping-valued key: a non-empty mapping or another non-empty value
Truthy(payload) == payload.k = "notmap" \/ (payload.k = "map" /\ payload.has # {})

(***************************************************************************)
(* The camera mapping of a variation.                                      *)
(***************************************************************************)
CamAbsent == [k |-> "absent", has |-> {}, location |-> VNull, rotation_euler |-> VNull, lens_mm |-> VNull]
CamNotMap == [CamAbsent EXCEPT !.k = "notmap"]
CamMap(has, location, rotation_euler, lens_mm) ==
    [k |-> "map", has |-> has, location |-> location, rotation_euler |-> rotation_euler,
     lens_mm |-> lens_mm]

None == [some |-> FALSE, v |-> <<>>]
Some(v) == [some |-> TRUE, v |-> v]

\* camera_payload.get(key): None when the key is absent
CamGet(payload, key, val) == IF key \in payload.has THEN val ELSE VNull

\* _as_tuple(camera_payload.get(key)) if camera_payload.get(key) is not None else None
OptTuple(value) ==
    IF value.k = "null" THEN Ok(None)
    ELSE LET t == _as_tuple(value) IN IF t.exc # "none" THEN Raise(t.exc) ELSE Ok(Some(t.val))

\* float(camera_payload["lens_mm"]) if camera_payload.get("lens_mm") is not None else None
OptFloat(value) ==
    IF value.k = "null" THEN Ok(None)
    ELSE IF value.k \in {"num", "numstr"} THEN Ok(Some(value.v))
    ELSE IF value.k = "str" THEN Raise("ValueError")
    ELSE Raise("TypeError")

\* config.py _build_variation, the camera part
BuildCamera(payload) ==
    IF ~Truthy(payload) THEN Ok([present |-> FALSE, location |-> None,
                                 rotation_euler |-> None, lens_mm |-> None])
    ELSE IF payload.k # "map" THEN Raise("PlanValidationError")
    ELSE LET loc == OptTuple(CamGet(payload, "location", payload.location))
             rot == OptTuple(CamGet(payload, "rotation_euler", payload.rotation_euler))
             lens == OptFloat(CamGet(payload, "lens_mm", payload.lens_mm))
             e == FirstExc(<<loc, rot, lens>>)
         IN  IF e # "none" THEN Raise(e)
             ELSE Ok([present |-> TRUE, location |-> loc.val,
                      rotation_euler |-> rot.val, lens_mm |-> lens.val])

\* config.py _build_variation, the render_settings part
BuildVariationSettings(payload) ==
    IF ~Truthy(payload) THEN Ok([present |-> FALSE, val |-> DEFAULT_RENDER_SETTINGS])
    ELSE LET r == _build_render_settings(payload)
         IN  IF r.exc # "none" THEN Raise(r.exc) ELSE Ok([present |-> TRUE, val |-> r.val])

(***************************************************************************)
(* Variations.                                                             *)
(***************************************************************************)
DigitChars == <<"0", "1", "2", "3", "4", "5", "6", "7", "8", "9">>

RECURSIVE Decimal(_)
Decimal(n) == IF n < 10 THEN <<DigitChars[n + 1]>>
              ELSE Append(Decimal(n \div 10), DigitChars[(n % 10) + 1])

RECURSIVE ZeroPad(_, _)
ZeroPad(cs, width) == IF Len(cs) >= width THEN cs ELSE ZeroPad(<<"0">> \o cs, width)

\* f"variation_{idx:03d}"
UnpaddedName(idx) ==
    <<"v", "a", "r", "i", "a", "t", "i", "o", "n", "_">> \o Decimal(idx)
DefaultName(idx) ==
    <<"v", "a", "r", "i", "a", "t", "i", "o", "n", "_">> \o ZeroPad(Decimal(idx), 3)

\* a variation entry of the document: a mapping (k = "map") or something else
VarPayload(hasName, name, no, tr, ad, cv, vis, cam, rs) ==
    [k |-> "map", hasName |-> hasName, name |-> name, node_overrides |-> no,
     translations |-> tr, additions |-> ad, collection_visibility |-> cv,
     visibility |-> vis, camera |-> cam, render_settings |-> rs]

EmptyVar == VarPayload(FALSE, <<>>, FAbsent, FAbsent, FAbsent, FAbsent, FAbsent, CamAbsent, RSAbsent)

Named(name) == [EmptyVar EXCEPT !.hasName = TRUE, !.name = name]

NotMapVar == [EmptyVar EXCEPT !.k = "notmap"]

\* config.py _build_variation; idx is the 0-based position of the entry
\* VariationConfig(name=name, ...) from the results of its arguments in the order
\* they are evaluated
VariationConfig(name, rs) ==
    IF FirstExc(rs) # "none" THEN Raise(FirstExc(rs))
    ELSE Ok([name |-> name,
             node_overrides |-> rs[1].val,
             translations |-> rs[2].val,
             additions |-> rs[3].val,
             collection_visibility |-> rs[4].val,
             visibility |-> rs[5].val,
             camera |-> rs[6].val,
             render_settings |-> rs[7].val])

_build_variation(payload, idx) ==
    IF payload.k # "map" THEN Raise("PlanValidationError")
    ELSE VariationConfig(IF payload.hasName /\ payload.name # <<>> THEN payload.name
                         ELSE DefaultName(idx),
                         <<BuildList(payload, "node_overrides"),
                           BuildList(payload, "translations"),
                           BuildList(payload, "additions"),
                           BuildList(payload, "collection_visibility"),
                           BuildList(payload, "visibility"),
                           BuildCamera(payload.camera),
                           BuildVariationSettings(payload.render_settings)>>)

(***************************************************************************)
(* The plan document and load_plan_from_file.                              *)
(***************************************************************************)
\* a path-valued key of the document: absent, null or a string
PAbsent == [k |-> "absent", p |-> P(FALSE, <<>>)]
PNull == [k |-> "null", p |-> P(FALSE, <<>>)]
PStr(p) == [k |-> "str", p |-> p]

\* a command line override: None or a string
NoOverride == [some |-> FALSE, p |-> P(FALSE, <<>>)]
Override(p) == [some |-> TRUE, p |-> p]

\* the document root: k = "map", or "null" / "emptyseq" (values that are false in a
\* boolean context) or "seq" / "str" (non-empty values that are no mapping)
Doc(blend, out, rs, hasCam, cam, variations) ==
    [k |-> "map", blend_path |-> blend, output_dir |-> out, render_settings |-> rs,
     hasCameraObject |-> hasCam, camera_object |-> cam, variations |-> variations]

EmptyDoc == Doc(PAbsent, PAbsent, RSAbsent, FALSE, "Camera", <<>>)

RootOf(kind) == [EmptyDoc EXCEPT !.k = kind]

\* yaml.safe_load(handle) or {}
SafeLoadOrEmpty(d) == IF d.k \in {"null", "emptyseq", "emptystr"} THEN EmptyDoc ELSE d

\* Path(override or raw.get(key, default)).expanduser(), made absolute against the
\* directory of the plan document
CwdRelative(path, over, field, default) ==
    LET chosen == IF over.some /\ over.p # P(FALSE, <<>>) THEN over.p
                  ELSE IF field.k = "absent" THEN default
                  ELSE field.p
    IN  IF chosen.abs THEN chosen ELSE Resolve(chosen)
PlanRelative(path, over, field, default) ==
    LET chosen == IF over.some /\ over.p # P(FALSE, <<>>) THEN over.p
                  ELSE IF field.k = "absent" THEN default
                  ELSE field.p
    IN  IF chosen.abs THEN chosen
        ELSE P(TRUE, Normalize(Join(Parent(path), chosen).parts))

\* RenderPlan(blend_path=..., ...) from the results of _build_render_settings and of
\* _build_variation for each entry, in the order they are evaluated
RenderPlan(blend_path, output_dir, camera_object, base, vs) ==
    IF FirstExc(<<base>> \o vs) # "none" THEN Raise(FirstExc(<<base>> \o vs))
    ELSE Ok([blend_path |-> blend_path,
             output_dir |-> output_dir,
             base_render_settings |-> base.val,
             camera_object |-> camera_object,
             variations |-> Vals(vs)])

\* config.py load_plan_from_file
load_plan_from_file(a, d) ==
    LET path == Resolve(a.plan)
    IN  IF ~Exists(path) THEN Raise("PlanValidationError")
        ELSE IF ~a.yaml THEN Raise("PlanValidationError")
        ELSE LET raw == SafeLoadOrEmpty(d)
             IN  IF raw.k # "map" THEN Raise("PlanValidationError")
                 ELSE IF ~a.blend.some /\ raw.blend_path.k = "null" THEN Raise("TypeError")
                 ELSE LET blend_path == PlanRelative(path, a.blend, raw.blend_path, P(FALSE, <<>>))
                      IN  IF ~Exists(blend_path) THEN Raise("PlanValidationError")
                          ELSE IF ~a.output.some /\ raw.output_dir.k = "null" THEN Raise("TypeError")
                          ELSE RenderPlan(
                                   blend_path,
                                   PlanRelative(path, a.output, raw.output_dir,
                                                P(FALSE, <<"render_output">>)),
                                   IF raw.hasCameraObject THEN raw.camera_object ELSE "Camera",
                                   _build_render_settings(
                                       IF raw.render_settings.k = "absent"
                                       THEN RSMap({}, DEFAULT_RENDER_SETTINGS)
                                       ELSE raw.render_settings),
                                   [i \in 1..Len(raw.variations) |->
                                       _build_variation(raw.variations[i], i - 1)])

(***************************************************************************)
(* The host scene.  Host operators are taken to complete; what the host    *)
(* holds is what the pipeline reads and writes:                            *)
(*   objects     bpy.data.objects, keyed <<name, n>> (n > 0 is the numeric *)
(*               suffix the host appends to keep names unique)             *)
(*   materials   bpy.data.materials with their node trees                  *)
(*   collections every collection a layer collection can wrap; `lookup` is *)
(*               the subset bpy.data.collections finds by name (the        *)
(*               scene's own root collection is not in it)                 *)
(*   layers      the layer-collection tree of each view layer              *)
(*   render, cycles, eevee   scene.render, scene.cycles, scene.eevee       *)
(***************************************************************************)
Key(name) == <<name, 0>>

Obj(type, location, hidden, lens) ==
    [type |-> type, location |-> location, rotation_euler |-> <<0, 0, 0>>,
     scale |-> <<1, 1, 1>>, hide_render |-> hidden, hide_viewport |-> hidden,
     hide |-> hidden, lens |-> lens, materials |-> <<>>]

Socket(kind, value) == [kind |-> kind, default_value |-> value]

LayerNode(coll, hidden, children) ==
    [collection |-> coll, hide_viewport |-> hidden, exclude |-> hidden, children |-> children]

\* the content of the plan's .blend file, as bpy.ops.wm.open_mainfile loads it
BaseScene ==
    [objects |-> (Key("Cube") :> Obj("MESH", <<1, 2, 3>>, FALSE, <<0>>))
              @@ (Key("Light") :> Obj("LIGHT", <<0, 0, 4>>, TRUE, <<0>>))
              @@ (Key("Camera") :> Obj("CAMERA", <<7, 0, 5>>, FALSE, <<50>>)),
     materials |-> ("LaserMat" :>
                       [use_nodes |-> TRUE,
                        nodes |-> ("Emission" :>
                                      ("Strength" :> Socket("scalar", <<1>>))
                                   @@ ("Color" :> Socket("vector", <<1, 1, 1>>))
                                   @@ ("Shader" :> Socket("nodefault", <<>>)))])
                @@ ("Flat" :> [use_nodes |-> FALSE, nodes |-> <<>>]),
     collections |-> ("Scene Collection" :> [hide_viewport |-> FALSE, hide_render |-> FALSE])
                  @@ ("Lighting" :> [hide_viewport |-> TRUE, hide_render |-> TRUE])
                  @@ ("Demo Assets" :> [hide_viewport |-> FALSE, hide_render |-> FALSE]),
     lookup |-> {"Lighting", "Demo Assets"},
     layers |-> << (1 :> LayerNode("Scene Collection", FALSE, <<2, 3>>))
                   @@ (2 :> LayerNode("Lighting", TRUE, <<4>>))
                   @@ (3 :> LayerNode("Demo Assets", FALSE, <<>>))
                   @@ (4 :> LayerNode("Lighting", TRUE, <<>>)),
                   (1 :> LayerNode("Scene Collection", FALSE, <<2>>))
                   @@ (2 :> LayerNode("Demo Assets", TRUE, <<>>)) >>,
     render |-> [engine |-> "BLENDER_WORKBENCH", filepath |-> "",
                 file_format |-> <<"J", "P", "E", "G">>, color_mode |-> "BW",
                 resolution_x |-> 640, resolution_y |-> 480],
     cycles |-> [samples |-> 8, use_denoising |-> FALSE],
     eevee |-> [taa_samples |-> 4]]

\* the scene before any file is opened by the pipeline (the host's start-up state)
StartupScene == [BaseScene EXCEPT !.objects = (Key("Cube") :> Obj("MESH", <<0, 0, 0>>, FALSE, <<0>>))]

(***************************************************************************)
(* Trace records.                                                          *)
(***************************************************************************)
LogRec(level, what, v, cat, idx) ==
    [kind |-> "log", level |-> level, what |-> what, vi |-> v, cat |-> cat, idx |-> idx]

CallRec(what, v, cat, idx) ==
    [kind |-> "call", level |-> "", what |-> what, vi |-> v, cat |-> cat, idx |-> idx]

Calls == SelectSeq(trace, LAMBDA r : r.kind = "call")

(***************************************************************************)
(* Text helpers: str.lower() and pathvalidate.sanitize_filename.           *)
(***************************************************************************)
UpperChars == <<"A", "B", "C", "D", "E", "F", "G", "H", "I", "J", "K", "L", "M",
                "N", "O", "P", "Q", "R", "S", "T", "U", "V", "W", "X", "Y", "Z">>
LowerChars == <<"a", "b", "c", "d", "e", "f", "g", "h", "i", "j", "k", "l", "m",
                "n", "o", "p", "q", "r", "s", "t", "u", "v", "w", "x", "y", "z">>

LowerChar(c) ==
    IF \E i \in 1..Len(UpperChars) : UpperChars[i] = c
    THEN LowerChars[CHOOSE i \in 1..Len(UpperChars) : UpperChars[i] = c]
    ELSE c

\* str.lower()
Lower(cs) == [i \in 1..Len(cs) |-> LowerChar(cs[i])]

InvalidFilenameChars == {"/", "\\", ":", "*", "?", "\"", "<", ">", "|"}

RECURSIVE RStrip(_)
RStrip(cs) ==
    IF cs # <<>> /\ cs[Len(cs)] \in {" ", "."} THEN RStrip(SubSeq(cs, 1, Len(cs) - 1)) ELSE cs

RECURSIVE LStrip(_)
LStrip(cs) == IF cs # <<>> /\ cs[1] = " " THEN LStrip(Tail(cs)) ELSE cs

\* sanitize_filename(variation_name, replacement_text="_"): every character a file
\* name may not hold becomes "_"; leading spaces and trailing spaces or periods go
sanitize_filename(cs) ==
    RStrip(LStrip([i \in 1..Len(cs) |-> IF cs[i] \in InvalidFilenameChars THEN "_" ELSE cs[i]]))

\* render_pipeline.py _build_render_path; the path is [dir, stem, suffix]
DirectExtension_build_render_path(output_dir, variation_name, settings) ==
    LET extension == Lower(settings.file_format)
    IN  [dir |-> output_dir, stem |-> sanitize_filename(variation_name),
         suffix |-> IF extension \in {<<"o", "p", "e", "n", "_", "e", "x", "r">>, <<"e", "x", "r">>}
                    THEN <<".", "e", "x", "r">> ELSE <<".">> \o extension]
_build_render_path(output_dir, variation_name, settings) ==
    LET sanitized == sanitize_filename(variation_name)
        extension == Lower(settings.file_format)
        suffix == IF extension \in {<<"p", "n", "g">>, <<"j", "p", "e", "g">>, <<"j", "p", "g">>,
                                    <<"t", "i", "f", "f">>,
                                    <<"o", "p", "e", "n", "_", "e", "x", "r">>, <<"e", "x", "r">>}
                  THEN IF extension \in {<<"o", "p", "e", "n", "_", "e", "x", "r">>, <<"e", "x", "r">>}
                       THEN <<".", "e", "x", "r">>
                       ELSE <<".">> \o extension
                  ELSE <<".", "p", "n", "g">>
    IN  [dir |-> output_dir, stem |-> sanitized, suffix |-> suffix]

(***************************************************************************)
(* Mutations of the scene, one operator per loop body.  Each yields the    *)
(* scene after it and the outcome: "applied", "warning" (target missing,   *)
(* nothing written), "error" (value coercion failed and was logged), or    *)
(* "warning+applied" / "applied+warning" (a warning and a write, in that   *)
(* order).                                                                 *)
(***************************************************************************)
Res(sc, outcome) == [scene |-> sc, outcome |-> outcome]

\* render_pipeline.py _apply_node_overrides, the loop body after the dry-run branch
NodeOverrideBody(sc, o) ==
    IF o.material \notin DOMAIN sc.materials THEN Res(sc, "warning")
    ELSE LET material == sc.materials[o.material]
         IN  IF ~material.use_nodes THEN Res(sc, "warning")
             ELSE IF o.node \notin DOMAIN material.nodes THEN Res(sc, "warning")
             ELSE IF o.socket \notin DOMAIN material.nodes[o.node] THEN Res(sc, "warning")
             ELSE LET socket == material.nodes[o.node][o.socket]
                      Set(v) == Res([sc EXCEPT !.materials[o.material].nodes[o.node][o.socket].default_value = v],
                                    "applied")
                  IN  IF socket.kind = "nodefault" THEN Res(sc, "warning")
                      ELSE IF socket.kind = "vector"
                      THEN IF o.value.k = "seq"
                           THEN IF Len(o.value.v) = Len(socket.default_value)
                                THEN Set(FloatAll(o.value.v))
                                ELSE Res(sc, "error")
                           ELSE IF o.value.k \in {"num", "numstr"}
                           THEN Set([i \in 1..Len(socket.default_value) |-> o.value.v[1]])
                           ELSE Res(sc, "error")
                      ELSE IF o.value.k \in {"num", "numstr"} THEN Set(o.value.v)
                           ELSE Res(sc, "error")

\* render_pipeline.py _iter_layer_collections: the nodes in the order they are yielded
RECURSIVE IterStack(_, _)
IterStack(tree, stack) ==
    IF stack = <<>> THEN <<>>
    ELSE LET current == stack[Len(stack)]
             rest == SubSeq(stack, 1, Len(stack) - 1)
         IN  <<current>> \o IterStack(tree, rest \o tree[current].children)

_iter_layer_collections(tree) == IterStack(tree, <<1>>)

\* render_pipeline.py _apply_collection_visibility, the loop body after the dry-run branch
CollectionVisibilityBody(sc, o) ==
    LET hide == ~o.visible
        found == o.name \in sc.lookup
        sc1 == IF found
               THEN [sc EXCEPT !.collections[o.name] = [hide_viewport |-> hide, hide_render |-> hide]]
               ELSE sc
        Hit(tree) == {n \in Range(_iter_layer_collections(tree)) : tree[n].collection = o.name}
        wrapped == \E l \in 1..Len(sc.layers) : Hit(sc.layers[l]) # {}
        sc2 == [sc1 EXCEPT
                  !.layers = [l \in 1..Len(sc.layers) |->
                                 [n \in DOMAIN sc.layers[l] |->
                                     IF n \in Hit(sc.layers[l])
                                     THEN [sc.layers[l][n] EXCEPT !.hide_viewport = hide,
                                                                  !.exclude = hide]
                                     ELSE sc.layers[l][n]]],
                  !.collections = IF wrapped
                                  THEN [sc1.collections EXCEPT ![o.name] =
                                           [hide_viewport |-> hide, hide_render |-> hide]]
                                  ELSE sc1.collections]
    IN  Res(sc2, IF found THEN "applied" ELSE IF wrapped THEN "warning+applied" ELSE "warning")

\* render_pipeline.py _apply_visibility_overrides, the loop body after the dry-run branch
ViewportOnlyVisibilityBody(sc, o, hasHideSet) ==
    IF Key(o.name) \notin DOMAIN sc.objects THEN Res(sc, "warning")
    ELSE Res([sc EXCEPT !.objects[Key(o.name)].hide_viewport = ~o.visible], "applied")
VisibilityBody(sc, o, hasHideSet) ==
    IF Key(o.name) \notin DOMAIN sc.objects THEN Res(sc, "warning")
    ELSE LET hide == ~o.visible
         IN  Res([sc EXCEPT !.objects[Key(o.name)] =
                     [@ EXCEPT !.hide_render = hide, !.hide_viewport = hide,
                               !.hide = IF hasHideSet THEN hide ELSE @]],
                 "applied")

\* render_pipeline.py _translate_objects, the loop body after the dry-run branch
AbsoluteTranslateBody(sc, t) ==
    IF Key(t.name) \notin DOMAIN sc.objects THEN Res(sc, "warning")
    ELSE Res([sc EXCEPT !.objects[Key(t.name)].location = t.offset], "applied")
TranslateBody(sc, t) ==
    IF Key(t.name) \notin DOMAIN sc.objects THEN Res(sc, "warning")
    ELSE Res([sc EXCEPT !.objects[Key(t.name)].location =
                 [i \in 1..3 |-> @[i] + t.offset[i]]], "applied")

\* bpy.ops.mesh.primitive_<kind>_add: the operators the host offers and the name the
\* host gives the object each creates
SupportedPrimitives == {<<"c", "u", "b", "e">>, <<"p", "l", "a", "n", "e">>}

HostDefaultName(kind) == IF kind = <<"c", "u", "b", "e">> THEN "Cube" ELSE "Plane"

\* the key under which the host stores an object called `name` next to those in dom
HostUnique(name, dom) == <<name, Min({n \in 0..Cardinality(dom) : <<name, n>> \notin dom})>>

\* render_pipeline.py _add_primitives, the loop body after the dry-run branch
AddPrimitiveBody(sc, a) ==
    IF Lower(a.primitive) \notin SupportedPrimitives THEN Res(sc, "warning")
    ELSE LET dom == DOMAIN sc.objects
             key == IF a.hasName /\ a.name # ""
                    THEN HostUnique(a.name, dom)
                    ELSE HostUnique(HostDefaultName(Lower(a.primitive)), dom)
             wantsMaterial == a.hasMaterial /\ a.material # ""
             hasMaterial == wantsMaterial /\ a.material \in DOMAIN sc.materials
             new_object == [type |-> "MESH", location |-> a.location,
                            rotation_euler |-> a.rotation, scale |-> a.scale,
                            hide_render |-> FALSE, hide_viewport |-> FALSE, hide |-> FALSE,
                            lens |-> <<0>>,
                            materials |-> IF hasMaterial THEN <<a.material>> ELSE <<>>]
         IN  Res([sc EXCEPT !.objects = (key :> new_object) @@ sc.objects],
                 IF wantsMaterial /\ ~hasMaterial THEN "applied+warning" ELSE "applied")

\* render_pipeline.py _configure_camera after the dry-run branch
ConfigureCameraBody(sc, camera_name, instruction) ==
    IF Key(camera_name) \notin DOMAIN sc.objects THEN Res(sc, "warning")
    ELSE LET camera_obj == sc.objects[Key(camera_name)]
         IN  Res([sc EXCEPT !.objects[Key(camera_name)] =
                    [@ EXCEPT !.location = IF instruction.location.some
                                           THEN instruction.location.v ELSE @,
                              !.rotation_euler = IF instruction.rotation_euler.some
                                                 THEN instruction.rotation_euler.v ELSE @,
                              !.lens = IF instruction.lens_mm.some
                                          /\ instruction.lens_mm.v # <<0>>
                                          /\ camera_obj.type = "CAMERA"
                                       THEN instruction.lens_mm.v ELSE @]],
                 "applied")

\* render_pipeline.py _configure_render_settings after the dry-run branch
AnyEngineConfigureRenderSettingsBody(sc, settings, render_path, host) ==
    [sc EXCEPT !.render = [engine |-> settings.engine,
                           filepath |-> render_path,
                           file_format |-> settings.file_format,
                           color_mode |-> settings.color_mode,
                           resolution_x |-> settings.resolution_x,
                           resolution_y |-> settings.resolution_y],
               !.cycles = [samples |-> settings.samples,
                           use_denoising |-> settings.use_denoise]]
ConfigureRenderSettingsBody(sc, settings, render_path, host) ==
    LET sc1 == [sc EXCEPT !.render = [engine |-> settings.engine,
                                      filepath |-> render_path,
                                      file_format |-> settings.file_format,
                                      color_mode |-> settings.color_mode,
                                      resolution_x |-> settings.resolution_x,
                                      resolution_y |-> settings.resolution_y]]
    IN  IF settings.engine = "CYCLES" /\ host.cycles
        THEN [sc1 EXCEPT !.cycles = [samples |-> settings.samples,
                                     use_denoising |-> settings.use_denoise]]
        ELSE IF settings.engine = "BLENDER_EEVEE" /\ host.eevee
        THEN [sc1 EXCEPT !.eevee = [taa_samples |-> settings.samples]]
        ELSE sc1

\* what a loop body leaves in the trace for entry idx of category cat
SilentOutcome(outcome, v, cat, idx) ==
    IF outcome \in {"applied", "warning+applied", "applied+warning"}
    THEN <<CallRec("mutate", v, cat, idx)>>
    ELSE IF outcome = "error" THEN <<LogRec("ERROR", "failed", v, cat, idx)>>
    ELSE <<>>
Outcome(outcome, v, cat, idx) ==
    IF outcome = "applied" THEN <<CallRec("mutate", v, cat, idx)>>
    ELSE IF outcome = "warning" THEN <<LogRec("WARNING", "missing", v, cat, idx)>>
    ELSE IF outcome = "error" THEN <<LogRec("ERROR", "failed", v, cat, idx)>>
    ELSE IF outcome = "warning+applied"
    THEN <<LogRec("WARNING", "missing", v, cat, idx), CallRec("mutate", v, cat, idx)>>
    ELSE <<CallRec("mutate", v, cat, idx), LogRec("WARNING", "missing", v, cat, idx)>>

DryRunRec(v, cat, idx) == LogRec("INFO", "dry-run", v, cat, idx)

(***************************************************************************)
(* execute_render_plan: the order of the calls made for one variation.     *)
(***************************************************************************)
TranslationsFirstStages ==
    <<"reload", "translations", "node_overrides", "collection_visibility", "visibility",
      "additions", "camera", "settings", "render">>
RenderBeforeSettingsStages ==
    <<"reload", "node_overrides", "collection_visibility", "visibility",
      "translations", "additions", "camera", "render", "settings">>
Stages == <<"reload", "node_overrides", "collection_visibility", "visibility",
            "translations", "additions", "camera", "settings", "render">>

ListStages == {"node_overrides", "collection_visibility", "visibility",
               "translations", "additions"}

StageIndex(stage) == CHOOSE i \in 1..Len(Stages) : Stages[i] = stage

\* number of loop iterations (or calls) stage `stage` makes for variation v
StageLen(v, stage) ==
    IF stage \in ListStages THEN Len(v[stage])
    ELSE IF stage = "camera" THEN (IF v.camera.present THEN 1 ELSE 0)
    ELSE 1

\* the first stage from position i on that has something to do, 0 if none
RECURSIVE StageFrom(_, _)
StageFrom(v, i) ==
    IF i > Len(Stages) THEN 0
    ELSE IF StageLen(v, Stages[i]) > 0 THEN i
    ELSE StageFrom(v, i + 1)

\* where the loop stands after iteration mi of stage `stage` of variation vi
After(stage) ==
    LET v == plan.variations[vi]
        n == StageFrom(v, StageIndex(stage) + 1)
    IN  IF mi < StageLen(v, stage) THEN [pc |-> stage, vi |-> vi, mi |-> mi + 1]
        ELSE IF n # 0 THEN [pc |-> Stages[n], vi |-> vi, mi |-> 1]
        ELSE IF vi < Len(plan.variations)
        THEN [pc |-> Stages[StageFrom(plan.variations[vi + 1], 1)], vi |-> vi + 1, mi |-> 1]
        ELSE [pc |-> "return", vi |-> vi, mi |-> 1]

Goto(pos) == pc' = pos.pc /\ vi' = pos.vi /\ mi' = pos.mi

Variation == plan.variations[vi]

\* render_settings = variation.render_settings or plan.base_render_settings
EffectiveSettings(p, v) ==
    IF v.render_settings.present THEN v.render_settings.val ELSE p.base_render_settings

RenderPath(p, v) == _build_render_path(p.output_dir, v.name, EffectiveSettings(p, v))

EmptyPlan ==
    [blend_path |-> P(FALSE, <<>>), output_dir |-> P(FALSE, <<>>),
     base_render_settings |-> DEFAULT_RENDER_SETTINGS, camera_object |-> "Camera",
     variations |-> <<>>]

(***************************************************************************)
(* Actions.                                                                *)
(***************************************************************************)
\* cli.py main, what follows the call of load_plan_from_file with result r
AfterLoad(r) ==
    IF r.exc = "PlanValidationError"
    THEN /\ trace' = Append(trace, LogRec("ERROR", "load-failed", 0, "", 0))
         /\ raised' = r.exc
         /\ exitCode' = 2
         /\ pc' = "exit"
         /\ UNCHANGED plan
    ELSE IF r.exc # "none"
    THEN /\ raised' = r.exc
         /\ pc' = "raised"
         /\ UNCHANGED <<plan, exitCode, trace>>
    ELSE /\ plan' = r.val
         /\ pc' = "exec"
         /\ UNCHANGED <<raised, exitCode, trace>>

\* cli.py main: parse the arguments, load the plan, return 2 on PlanValidationError
MainLoad ==
    /\ pc = "main"
    /\ AfterLoad(load_plan_from_file(args, doc))
    /\ UNCHANGED <<args, doc, vi, mi, scene, files, outputDirMade>>
    /\ UNCHANGED iterVars

\* render_pipeline.py execute_render_plan up to the loop
ReloadFirstExecStart ==
    /\ pc = "exec"
    /\ IF plan.variations = <<>>
       THEN /\ trace' = trace \o (IF args.dry_run THEN <<LogRec("INFO", "dry-run-reload", 0, "", 0)>>
                                   ELSE <<CallRec("open_mainfile", 0, "", 0)>>)
                           \o <<LogRec("WARNING", "no-variations", 0, "", 0)>>
            /\ pc' = "return"
            /\ UNCHANGED <<vi, mi, outputDirMade>>
       ELSE /\ outputDirMade' = TRUE
            /\ pc' = Stages[StageFrom(plan.variations[1], 1)]
            /\ vi' = 1
            /\ mi' = 1
            /\ UNCHANGED trace
    /\ UNCHANGED <<args, doc, plan, raised, exitCode, scene, files>>
    /\ UNCHANGED iterVars
ExecStart ==
    /\ pc = "exec"
    /\ IF plan.variations = <<>>
       THEN /\ trace' = Append(trace, LogRec("WARNING", "no-variations", 0, "", 0))
            /\ pc' = "return"
            /\ UNCHANGED <<vi, mi, outputDirMade>>
       ELSE /\ outputDirMade' = TRUE
            /\ pc' = Stages[StageFrom(plan.variations[1], 1)]
            /\ vi' = 1
            /\ mi' = 1
            /\ UNCHANGED trace
    /\ UNCHANGED <<args, doc, plan, raised, exitCode, scene, files>>
    /\ UNCHANGED iterVars

\* render_pipeline.py _reload_scene, with the log line that opens the iteration
KeepScene_reload_scene(sc) == sc
_reload_scene(sc) == BaseScene

ReloadScene ==
    /\ pc = "reload"
    /\ IF args.dry_run
       THEN /\ trace' = trace \o <<LogRec("INFO", "variation", vi, "", 0),
                                   LogRec("INFO", "dry-run-reload", vi, "", 0)>>
            /\ UNCHANGED scene
       ELSE /\ trace' = trace \o <<LogRec("INFO", "variation", vi, "", 0),
                                   LogRec("INFO", "loading", vi, "", 0),
                                   CallRec("open_mainfile", vi, "", 0)>>
            /\ scene' = _reload_scene(scene)
    /\ Goto(After("reload"))
    /\ UNCHANGED <<args, doc, plan, raised, exitCode, files, outputDirMade>>
    /\ UNCHANGED iterVars

\* one iteration of a mutation loop: the dry-run branch or the loop body
FallThroughIterate(stage, body) ==
    /\ pc = stage
    /\ trace' = trace \o (IF args.dry_run THEN <<DryRunRec(vi, stage, mi)>> ELSE <<>>)
                 \o Outcome(body.outcome, vi, stage, mi)
    /\ scene' = body.scene
    /\ Goto(After(stage))
    /\ UNCHANGED <<args, doc, plan, raised, exitCode, files, outputDirMade>>
    /\ UNCHANGED iterVars
Iterate(stage, body) ==
    /\ pc = stage
    /\ IF args.dry_run
       THEN /\ trace' = Append(trace, DryRunRec(vi, stage, mi))
            /\ UNCHANGED scene
       ELSE /\ trace' = trace \o Outcome(body.outcome, vi, stage, mi)
            /\ scene' = body.scene
    /\ Goto(After(stage))
    /\ UNCHANGED <<args, doc, plan, raised, exitCode, files, outputDirMade>>
    /\ UNCHANGED iterVars

ApplyNodeOverride ==
    /\ pc = "node_overrides"
    /\ Iterate("node_overrides", NodeOverrideBody(scene, Variation.node_overrides[mi]))

ApplyCollectionVisibility ==
    /\ pc = "collection_visibility"
    /\ Iterate("collection_visibility",
               CollectionVisibilityBody(scene, Variation.collection_visibility[mi]))

ApplyVisibilityOverride ==
    /\ pc = "visibility"
    /\ Iterate("visibility", VisibilityBody(scene, Variation.visibility[mi], args.host.hide_set))

TranslateObject ==
    /\ pc = "translations"
    /\ Iterate("translations", TranslateBody(scene, Variation.translations[mi]))

AddPrimitive ==
    /\ pc = "additions"
    /\ Iterate("additions", AddPrimitiveBody(scene, Variation.additions[mi]))

ConfigureCamera ==
    /\ pc = "camera"
    /\ Iterate("camera", ConfigureCameraBody(scene, plan.camera_object, Variation.camera))

\* render_pipeline.py execute_render_plan lines 50-53: _configure_render_settings
ConfigureRenderSettings ==
    /\ pc = "settings"
    /\ IF args.dry_run
       THEN /\ trace' = Append(trace, LogRec("INFO", "dry-run-settings", vi, "", 0))
            /\ UNCHANGED scene
       ELSE /\ trace' = Append(trace, CallRec("settings", vi, "", 0))
            /\ scene' = ConfigureRenderSettingsBody(scene, EffectiveSettings(plan, Variation),
                                                    RenderPath(plan, Variation), args.host)
    /\ Goto(After("settings"))
    /\ UNCHANGED <<args, doc, plan, raised, exitCode, files, outputDirMade>>
    /\ UNCHANGED iterVars

\* render_pipeline.py _perform_render
PerformRender ==
    /\ pc = "render"
    /\ IF args.dry_run
       THEN /\ trace' = Append(trace, LogRec("INFO", "dry-run-render", vi, "", 0))
            /\ UNCHANGED files
       ELSE /\ trace' = Append(trace, CallRec("render", vi, "", 0))
            /\ files' = Append(files, <<scene.render.filepath, vi>>)
    /\ Goto(After("render"))
    /\ UNCHANGED <<args, doc, plan, raised, exitCode, scene, outputDirMade>>
    /\ UNCHANGED iterVars

\* cli.py main: execute_render_plan has returned, main returns 0
MainReturn ==
    /\ pc = "return"
    /\ exitCode' = 0
    /\ pc' = "exit"
    /\ UNCHANGED <<args, doc, plan, raised, vi, mi, scene, trace, files, outputDirMade>>
    /\ UNCHANGED iterVars

Next ==
    \/ MainLoad
    \/ ExecStart
    \/ ReloadScene
    \/ ApplyNodeOverride
    \/ ApplyCollectionVisibility
    \/ ApplyVisibilityOverride
    \/ TranslateObject
    \/ AddPrimitive
    \/ ConfigureCamera
    \/ ConfigureRenderSettings
    \/ PerformRender
    \/ MainReturn

(***************************************************************************)
(* Inputs: command lines and plan documents.                               *)
(***************************************************************************)
Host(hide_set, cycles, eevee) == [hide_set |-> hide_set, cycles |-> cycles, eevee |-> eevee]

Args(planPath, blend, output, dry_run, yaml, host) ==
    [plan |-> planPath, blend |-> blend, output |-> output, dry_run |-> dry_run,
     yaml |-> yaml, host |-> host]

Rel(parts) == P(FALSE, parts)
Abs(parts) == P(TRUE, parts)

\* mutation entries as they appear in a document
NodeEntry(material, node, socket, value) ==
    [BlankEntry EXCEPT !.has = {"material", "node", "socket", "value"}, !.material = material,
                       !.node = node, !.socket = socket, !.value = value]
TransEntry(name, offset) ==
    [BlankEntry EXCEPT !.has = {"name", "offset"}, !.name = name, !.offset = offset]
AddEntry(primitive, name, location, material) ==
    [BlankEntry EXCEPT !.has = {"primitive", "name", "location", "material"},
                       !.primitive = primitive, !.name = name, !.location = location,
                       !.material = material]
VisEntry(name, visible) ==
    [BlankEntry EXCEPT !.has = {"name", "visible"}, !.name = name, !.visible = visible]
Without(entry, key) == [entry EXCEPT !.has = @ \ {key}]

WithFormat(fmt) == RSMap({"file_format"}, [DEFAULT_RENDER_SETTINGS EXCEPT !.file_format = fmt])

Cube == <<"c", "u", "b", "e">>

\* well-formed variations exercising every mutation category, found and missing targets
VarOn == [Named(<<"o", "n">>) EXCEPT !.visibility = FList(<<VisEntry("Light", TRUE)>>)]

VarSlash ==
    [Named(<<"a", "/", "b">>) EXCEPT
        !.translations = FList(<<TransEntry("Ghost", VSeq(<<1, 1, 1>>)),
                                 TransEntry("Cube", VSeq(<<0, 0, 5>>))>>),
        !.visibility = FList(<<VisEntry("Ghost", FALSE), VisEntry("Cube", FALSE)>>)]

VarUnderscore ==
    [Named(<<"a", "_", "b">>) EXCEPT
        !.node_overrides = FList(<<NodeEntry("NoMat", "Emission", "Strength", VNum(5)),
                                   NodeEntry("LaserMat", "Emission", "Strength", VNum(5))>>),
        !.additions = FList(<<AddEntry(<<"t", "o", "r", "u", "s">>, "Ring", VSeq(<<0, 0, 0>>), ""),
                              AddEntry(<<"C", "U", "B", "E">>, "Box", VSeq(<<2, 2, 2>>), "NoMat")>>),
        !.render_settings = WithFormat(<<"B", "M", "P">>)]

VarUnnamed ==
    [EmptyVar EXCEPT
        !.collection_visibility = FList(<<VisEntry("Nope", FALSE),
                                          VisEntry("Scene Collection", FALSE),
                                          VisEntry("Lighting", TRUE)>>),
        !.camera = CamMap({"location", "lens_mm"}, VSeq(<<9, 9, 9>>), VNull, VNum(35)),
        !.render_settings = RSMap({"engine", "samples"},
                                  [DEFAULT_RENDER_SETTINGS EXCEPT !.engine = "BLENDER_EEVEE",
                                                                  !.samples = 16])]

VarNodes ==
    [Named(<<"o", "n">>) EXCEPT
        !.node_overrides = FList(<<NodeEntry("Flat", "Emission", "Strength", VNum(2)),
                                   NodeEntry("LaserMat", "Glow", "Strength", VNum(2)),
                                   NodeEntry("LaserMat", "Emission", "Gain", VNum(2)),
                                   NodeEntry("LaserMat", "Emission", "Shader", VNum(2)),
                                   NodeEntry("LaserMat", "Emission", "Color", VStr(<<"r">>)),
                                   NodeEntry("LaserMat", "Emission", "Color", VNumStr(3))>>),
        !.camera = CamMap({"rotation_euler"}, VNull, VSeq(<<1, 0, 0>>), VNull),
        !.render_settings = WithFormat(<<"O", "P", "E", "N", "_", "E", "X", "R">>)]

VarDefaultNamed ==
    [Named(DefaultName(1)) EXCEPT
        !.additions = FList(<<Without(AddEntry(Cube, "", VSeq(<<1, 0, 0>>), "LaserMat"), "name")>>),
        !.translations = FList(<<TransEntry("Cube", VSeq(<<1, 0, 0>>)),
                                 TransEntry("Cube", VSeq(<<0, 2, 0>>))>>)]

PipelineVariations == {VarOn, VarSlash, VarUnderscore, VarUnnamed, VarNodes, VarDefaultNamed}

\* variations the loader has to reject, one malformation each
MalformedVariations ==
    { NotMapVar,
      [EmptyVar EXCEPT !.node_overrides = FInt],
      [EmptyVar EXCEPT !.translations = FStr(2)],
      [EmptyVar EXCEPT !.additions = FStr(1)],
      [EmptyVar EXCEPT !.collection_visibility = FMap(1)],
      [EmptyVar EXCEPT !.visibility = FInt],
      [EmptyVar EXCEPT !.node_overrides =
          FList(<<Without(NodeEntry("LaserMat", "Emission", "Strength", VNum(1)), "value")>>)],
      [EmptyVar EXCEPT !.translations = FList(<<Without(TransEntry("Cube", VSeq(<<0, 0, 1>>)), "name")>>)],
      [EmptyVar EXCEPT !.visibility = FList(<<Without(VisEntry("Cube", TRUE), "name")>>)],
      [EmptyVar EXCEPT !.translations = FList(<<TransEntry("Cube", VSeq(<<0, 1>>))>>)],
      [EmptyVar EXCEPT !.translations = FList(<<TransEntry("Cube", VNull)>>)],
      [EmptyVar EXCEPT !.additions = FList(<<AddEntry(Cube, "Box", VSeq(<<1, 2, 3, 4>>), "")>>)],
      [EmptyVar EXCEPT !.camera = CamMap({"location"}, VSeq(<<1, 2>>), VNull, VNull)],
      [EmptyVar EXCEPT !.camera = CamMap({"rotation_euler"}, VNull, VSeq(<<>>), VNull)],
      [EmptyVar EXCEPT !.camera = CamNotMap],
      [EmptyVar EXCEPT !.render_settings = RSNotMap] }

GoodBlend == PStr(Rel(<<"cube.blend">>))

GoodDoc(variations) == Doc(GoodBlend, PStr(Rel(<<"out">>)), RSAbsent, FALSE, "Camera", variations)

DefaultHost == Host(TRUE, TRUE, TRUE)

DefaultArgs(dry_run) == Args(PlanFile, NoOverride, NoOverride, dry_run, TRUE, DefaultHost)

Formats ==
    { PNG, <<"p", "n", "g">>, <<"J", "P", "E", "G">>, <<"J", "p", "g">>, <<"T", "I", "F", "F">>,
      <<"O", "P", "E", "N", "_", "E", "X", "R">>, <<"e", "x", "r">>, <<"B", "M", "P">>,
      <<"W", "E", "B", "P">>, <<>> }

\* runs of the pipeline over well-formed plans
PipelineInputs ==
    { <<DefaultArgs(d), GoodDoc(vs)>> :
        d \in BOOLEAN, vs \in SeqsUpTo(PipelineVariations, MaxVariations) }

\* hosts without the optional capabilities, camera object names, base settings
HostInputs ==
    { <<Args(PlanFile, NoOverride, NoOverride, FALSE, TRUE, h),
        Doc(GoodBlend, PAbsent, rs, TRUE, cam, <<v>>)>> :
        h \in {Host(FALSE, TRUE, TRUE), Host(TRUE, FALSE, FALSE)},
        rs \in {RSAbsent, RSMap({"engine"}, [DEFAULT_RENDER_SETTINGS EXCEPT !.engine = "BLENDER_EEVEE"])},
        cam \in {"Camera", "Cube", "NoCam"},
        v \in {VarOn, VarUnnamed} }

\* every file format, as the plan's base setting
FormatInputs ==
    { <<DefaultArgs(d), Doc(GoodBlend, PStr(Rel(<<"out">>)), WithFormat(f), FALSE, "Camera", <<v>>)>> :
        d \in BOOLEAN, f \in Formats, v \in {VarOn, VarSlash} }

\* what the loader has to validate: the plan path, the document root, the scene
\* path, the overrides, malformed variations
LoaderInputs ==
    { <<Args(pp, b, o, d, y, DefaultHost), dd>> :
        pp \in {PlanFile, Abs(<<"a", "b", "none.yaml">>), Rel(<<"..", "a", "b", "plan.yaml">>)},
        b \in {NoOverride, Override(Abs(<<"w", "scene.blend">>)), Override(Rel(<<"nope.blend">>))},
        o \in {NoOverride, Override(Abs(<<"o">>))},
        d \in BOOLEAN, y \in BOOLEAN,
        dd \in {RootOf("null"), RootOf("emptyseq"), RootOf("seq"), RootOf("str")}
               \cup { Doc(bp, PAbsent, rs, FALSE, "Camera", <<VarOn>>) :
                        bp \in {PAbsent, PNull, GoodBlend, PStr(Rel(<<"..", "scene.blend">>)),
                                PStr(Rel(<<"gone.blend">>)), PStr(Abs(<<"a", "scene.blend">>))},
                        rs \in {RSAbsent, RSNull, RSNotMap} } }
    \cup
    { <<DefaultArgs(d), GoodDoc(vs)>> :
        d \in BOOLEAN,
        vs \in { <<m>> : m \in MalformedVariations }
               \cup { <<VarOn, m>> : m \in MalformedVariations } }

\* engine identifiers: the two the pipeline knows and others
Engines == {"CYCLES", "BLENDER_EEVEE", "BLENDER_WORKBENCH", "cycles", "BLENDER_EEVEE_NEXT"}

\* a plan-level render_settings mapping that differs from the defaults
BaseEevee ==
    RSMap({"engine", "samples", "color_mode"},
          [DEFAULT_RENDER_SETTINGS EXCEPT !.engine = "BLENDER_EEVEE", !.samples = 32,
                                          !.color_mode = "RGBA"])

\* a variation whose render_settings mapping is empty
VarEmptySettings == [Named(<<"e">>) EXCEPT !.render_settings = RSMap({}, DEFAULT_RENDER_SETTINGS)]

\* a variation that declares its engine and sample count
VarEngine(engine) ==
    [Named(<<"e">>) EXCEPT
        !.render_settings = RSMap({"engine", "samples"},
                                  [DEFAULT_RENDER_SETTINGS EXCEPT !.engine = engine,
                                                                  !.samples = 16])]

\* plan-level settings against variation-level settings, on hosts with and without
\* the engines' settings blocks
SettingsInputs ==
    { <<Args(PlanFile, NoOverride, NoOverride, d, TRUE, h),
        Doc(GoodBlend, PStr(Rel(<<"out">>)), rs, FALSE, "Camera", <<v>>)>> :
        d \in BOOLEAN,
        h \in {DefaultHost, Host(TRUE, FALSE, FALSE)},
        rs \in {RSAbsent, BaseEevee},
        v \in {VarOn, VarUnderscore, VarEmptySettings} \cup {VarEngine(e) : e \in Engines} }

\* a variation whose name key holds the empty string
VarEmptyName == [EmptyVar EXCEPT !.hasName = TRUE]

\* named, unnamed and empty-named variations at every position
NameInputs ==
    { <<DefaultArgs(d), GoodDoc(vs)>> :
        d \in BOOLEAN, vs \in SeqsUpTo({VarOn, EmptyVar, VarEmptyName}, MaxVariations) }

\* a variation that overrides the visibility of one object twice
VarBlink ==
    [Named(<<"o", "n">>) EXCEPT
        !.visibility = FList(<<VisEntry("Light", TRUE), VisEntry("Cube", FALSE),
                               VisEntry("Light", FALSE), VisEntry("Cube", FALSE)>>),
        !.translations = FList(<<TransEntry("Light", VSeq(<<0, 0, 1>>))>>)]

VisibilityInputs ==
    { <<Args(PlanFile, NoOverride, NoOverride, d, TRUE, h), GoodDoc(<<VarBlink>>)>> :
        d \in BOOLEAN, h \in {DefaultHost, Host(FALSE, TRUE, TRUE)} }

\* scene and output paths, relative and absolute, declared and overridden (an
\* override may be the empty string)
PathInputs ==
    { <<Args(pp, b, o, TRUE, TRUE, DefaultHost), Doc(bp, op, RSAbsent, FALSE, "Camera", <<VarOn>>)>> :
        pp \in {PlanFile, Rel(<<"..", "a", "b", "plan.yaml">>)},
        b \in {NoOverride, Override(Rel(<<>>)), Override(Rel(<<"..", "scene.blend">>)),
               Override(Abs(<<"w", "scene.blend">>))},
        o \in {NoOverride, Override(Rel(<<>>)), Override(Rel(<<"renders">>)), Override(Abs(<<"o">>))},
        bp \in {GoodBlend, PStr(Rel(<<"..", "scene.blend">>)), PStr(Abs(<<"a", "scene.blend">>))},
        op \in {PAbsent, PStr(Rel(<<"out">>)), PStr(Rel(<<"..", "out">>)), PStr(Abs(<<"o">>))} }

Inputs ==
    PipelineInputs \cup HostInputs \cup FormatInputs \cup LoaderInputs \cup SettingsInputs
    \cup NameInputs \cup VisibilityInputs \cup PathInputs

Init ==
    /\ \E input \in Inputs : args = input[1] /\ doc = input[2]
    /\ pc = "main"
    /\ plan = EmptyPlan
    /\ raised = "none"
    /\ exitCode = -1
    /\ vi = 0
    /\ mi = 0
    /\ scene = StartupScene
    /\ trace = <<>>
    /\ files = <<>>
    /\ outputDirMade = FALSE
    /\ loaded = StartupScene
    /\ layer = 0
    /\ pending = <<>>
    /\ yielded = <<>>

Spec == Init /\ [][Next]_vars

(***************************************************************************)
(* _apply_collection_visibility and _iter_layer_collections statement by   *)
(* statement, over every layer-collection tree of up to MaxNodes nodes.    *)
(* A tree maps the node ids 1..n (1 is the root) to layer collections;     *)
(* the parent of a node has a smaller id.  The root of a view layer wraps  *)
(* the scene's own collection, which bpy.data.collections does not list.   *)
(***************************************************************************)
RECURSIVE Ascending(_)
Ascending(S) == IF S = {} THEN <<>> ELSE <<Min(S)>> \o Ascending(S \ {Min(S)})

ParentMaps(n) == {parent \in [2..n -> 1..n] : \A k \in 2..n : parent[k] < k}

TreeOf(n, parent, names, hidden) ==
    [k \in 1..n |-> LayerNode(IF k = 1 THEN "Scene Collection" ELSE names[k], hidden,
                              Ascending({c \in 2..n : parent[c] = k}))]

Trees(hidden) ==
    UNION { { TreeOf(n, parent, names, hidden) :
                parent \in ParentMaps(n), names \in [2..n -> {"C", "D"}] } :
            n \in 1..MaxNodes }

\* a scene file with two view layers: the first holds `tree`, the second a fixed tree
\* in which C is wrapped below D
TreeScene(tree, hidden) ==
    [BaseScene EXCEPT
        !.collections = ("Scene Collection" :> [hide_viewport |-> hidden, hide_render |-> hidden])
                        @@ ("C" :> [hide_viewport |-> hidden, hide_render |-> hidden])
                        @@ ("D" :> [hide_viewport |-> hidden, hide_render |-> hidden]),
        !.lookup = {"C", "D"},
        !.layers = <<tree, (1 :> LayerNode("Scene Collection", hidden, <<2>>))
                           @@ (2 :> LayerNode("D", hidden, <<3>>))
                           @@ (3 :> LayerNode("C", hidden, <<>>))>>]

\* the names an override is given: a collection, the scene's own collection, no collection
OverrideNames == {"C", "Scene Collection", "Nope"}

\* the plan of one variation that holds one collection-visibility override
OverridePlan(name, visible) ==
    [EmptyPlan EXCEPT
        !.variations = <<[name |-> <<"o", "n">>, node_overrides |-> <<>>, translations |-> <<>>,
                          additions |-> <<>>,
                          collection_visibility |-> <<[name |-> name, visible |-> visible]>>,
                          visibility |-> <<>>,
                          camera |-> [present |-> FALSE, location |-> None,
                                      rotation_euler |-> None, lens_mm |-> None],
                          render_settings |-> [present |-> FALSE, val |-> DEFAULT_RENDER_SETTINGS]]>>]

TreeInit ==
    /\ \E hidden \in BOOLEAN, visible \in BOOLEAN, name \in OverrideNames :
          \E tree \in Trees(hidden) :
              /\ scene = TreeScene(tree, hidden)
              /\ plan = OverridePlan(name, visible)
    /\ loaded = scene
    /\ args = DefaultArgs(FALSE)
    /\ doc = EmptyDoc
    /\ pc = "cv_lookup"
    /\ raised = "none"
    /\ exitCode = -1
    /\ vi = 1
    /\ mi = 1
    /\ trace = <<>>
    /\ files = <<>>
    /\ outputDirMade = TRUE
    /\ layer = 0
    /\ pending = <<>>
    /\ yielded = <<>>

CurrentOverride == plan.variations[vi].collection_visibility[mi]

\* render_pipeline.py 143-149: the lookup of the collection; then the loop over the
\* view layers starts and the generator of the first one is created
LookupCollection ==
    /\ pc = "cv_lookup"
    /\ IF CurrentOverride.name \in scene.lookup
       THEN /\ scene' = [scene EXCEPT !.collections[CurrentOverride.name] =
                            [hide_viewport |-> ~CurrentOverride.visible,
                             hide_render |-> ~CurrentOverride.visible]]
            /\ UNCHANGED trace
       ELSE /\ trace' = Append(trace, LogRec("WARNING", "missing", vi, "collection_visibility", mi))
            /\ UNCHANGED scene
    /\ yielded' = [l \in 1..Len(scene.layers) |-> <<>>]
    /\ IF scene.layers = <<>>
       THEN pc' = "cv_done" /\ UNCHANGED <<layer, pending>>
       ELSE pc' = "cv_iter" /\ layer' = 1 /\ pending' = <<1>>
    /\ UNCHANGED <<args, doc, plan, raised, exitCode, vi, mi, files, outputDirMade, loaded>>

\* render_pipeline.py 162-166 and 153-158: one turn of `while stack`: pop, yield to
\* the loop body (which writes the flags when the names match), extend the stack
RootOnlyIterYield ==
    /\ pc = "cv_iter"
    /\ pending # <<>>
    /\ yielded' = [yielded EXCEPT ![layer] = Append(@, pending[Len(pending)])]
    /\ pending' = SubSeq(pending, 1, Len(pending) - 1)
    /\ UNCHANGED <<args, doc, pc, plan, raised, exitCode, vi, mi, scene, trace, files,
                   outputDirMade, loaded, layer>>
IterYield ==
    /\ pc = "cv_iter"
    /\ pending # <<>>
    /\ LET current == pending[Len(pending)]
           node == scene.layers[layer][current]
           hide == ~CurrentOverride.visible
       IN  /\ yielded' = [yielded EXCEPT ![layer] = Append(@, current)]
           /\ scene' = IF node.collection # CurrentOverride.name THEN scene
                       ELSE [scene EXCEPT
                               !.layers[layer][current].hide_viewport = hide,
                               !.layers[layer][current].exclude = hide,
                               !.collections[node.collection] =
                                   [hide_viewport |-> hide, hide_render |-> hide]]
           /\ pending' = SubSeq(pending, 1, Len(pending) - 1) \o node.children
    /\ UNCHANGED <<args, doc, pc, plan, raised, exitCode, vi, mi, trace, files,
                   outputDirMade, loaded, layer>>

\* the stack is empty: the generator ends and the loop goes to the next view layer
IterExhausted ==
    /\ pc = "cv_iter"
    /\ pending = <<>>
    /\ IF layer < Len(scene.layers)
       THEN layer' = layer + 1 /\ pending' = <<1>> /\ UNCHANGED pc
       ELSE pc' = "cv_done" /\ UNCHANGED <<layer, pending>>
    /\ UNCHANGED <<args, doc, plan, raised, exitCode, vi, mi, scene, trace, files,
                   outputDirMade, loaded, yielded>>

TreeNext == LookupCollection \/ IterYield \/ IterExhausted

\* the interpreter keeps executing the loop
TreeSpec == TreeInit /\ [][TreeNext]_vars /\ WF_vars(TreeNext)

(***************************************************************************)
(* Vocabulary of the properties.                                           *)
(***************************************************************************)
\* the order of the mutation categories
CategoryOrder == <<"node_overrides", "collection_visibility", "visibility",
                   "translations", "additions", "camera">>

Rank(cat) == CHOOSE i \in 1..Len(CategoryOrder) : CategoryOrder[i] = cat

IsMutationRec(r) == r.cat # ""

\* the entries variation v declares in category cat
Declared(v, cat) == 1..(IF cat = "camera" THEN (IF v.camera.present THEN 1 ELSE 0) ELSE Len(v[cat]))

Normal == ~args.dry_run

Finished == pc = "exit" /\ exitCode = 0

\* the scene a freshly loaded base scene becomes under the mutations of variation v
\* alone, category by category
RECURSIVE FoldNode(_, _, _)
FoldNode(sc, l, i) ==
    IF i > Len(l) THEN sc ELSE FoldNode(NodeOverrideBody(sc, l[i]).scene, l, i + 1)

RECURSIVE FoldCollection(_, _, _)
FoldCollection(sc, l, i) ==
    IF i > Len(l) THEN sc ELSE FoldCollection(CollectionVisibilityBody(sc, l[i]).scene, l, i + 1)

RECURSIVE FoldVisibility(_, _, _, _)
FoldVisibility(sc, l, i, h) ==
    IF i > Len(l) THEN sc ELSE FoldVisibility(VisibilityBody(sc, l[i], h).scene, l, i + 1, h)

RECURSIVE FoldTranslate(_, _, _)
FoldTranslate(sc, l, i) ==
    IF i > Len(l) THEN sc ELSE FoldTranslate(TranslateBody(sc, l[i]).scene, l, i + 1)

RECURSIVE FoldAdd(_, _, _)
FoldAdd(sc, l, i) ==
    IF i > Len(l) THEN sc ELSE FoldAdd(AddPrimitiveBody(sc, l[i]).scene, l, i + 1)

SceneOfVariationAlone(p, v, host) ==
    LET s1 == FoldNode(BaseScene, v.node_overrides, 1)
        s2 == FoldCollection(s1, v.collection_visibility, 1)
        s3 == FoldVisibility(s2, v.visibility, 1, host.hide_set)
        s4 == FoldTranslate(s3, v.translations, 1)
        s5 == FoldAdd(s4, v.additions, 1)
        s6 == IF v.camera.present THEN ConfigureCameraBody(s5, p.camera_object, v.camera).scene
              ELSE s5
    IN  ConfigureRenderSettingsBody(s6, EffectiveSettings(p, v), RenderPath(p, v), host)

(***************************************************************************)
(* C1.  In a run that is not a dry run, the scene at the moment variation  *)
(* i is rendered is the base scene changed by the mutations and render     *)
(* settings of variation i alone: nothing applied for an earlier variation *)
(* (or present before the first reload) is left.                           *)
(***************************************************************************)
C1_RenderedSceneDependsOnVariationAlone ==
    (pc = "render" /\ Normal) => scene = SceneOfVariationAlone(plan, Variation, args.host)

\* the second variation is about to be rendered after a different first one wrote
\* to the scene
C1_Witness ==
    /\ pc = "render" /\ Normal /\ vi = 2
    /\ plan.variations[1] # plan.variations[2]
    /\ \E i \in 1..Len(trace) :
          trace[i].kind = "call" /\ trace[i].what = "mutate" /\ trace[i].vi = 1
    /\ scene # BaseScene

(***************************************************************************)
(* C2.  Within every variation the mutation categories are handled in the  *)
(* order node overrides, collection visibility, object visibility,         *)
(* translations, additions, camera: when an entry is handled (applied,     *)
(* skipped with a warning, or logged by a dry run), every entry of each    *)
(* earlier category of the variation and every earlier entry of its own    *)
(* list has been handled before it, and none of them is handled after it.  *)
(***************************************************************************)
C2_CategoriesInFixedOrder ==
    \A b \in 1..Len(trace) :
        IsMutationRec(trace[b]) =>
            LET v == plan.variations[trace[b].vi]
            IN  /\ \A a \in 1..(b - 1) :
                      (IsMutationRec(trace[a]) /\ trace[a].vi = trace[b].vi) =>
                          \/ Rank(trace[a].cat) < Rank(trace[b].cat)
                          \/ /\ trace[a].cat = trace[b].cat
                             /\ trace[a].idx <= trace[b].idx
                /\ \A c \in 1..Len(CategoryOrder) : \A i \in Declared(v, CategoryOrder[c]) :
                      (c < Rank(trace[b].cat) \/ (c = Rank(trace[b].cat) /\ i < trace[b].idx)) =>
                          \E a \in 1..(b - 1) :
                              /\ trace[a].vi = trace[b].vi
                              /\ trace[a].cat = CategoryOrder[c]
                              /\ trace[a].idx = i

\* a variation with entries in three categories has reached its camera instruction
C2_Witness ==
    /\ pc = "settings" /\ Normal
    /\ Variation.camera.present
    /\ Len(Variation.node_overrides) > 1
    /\ \E i \in 1..Len(trace) : trace[i].vi = vi /\ trace[i].cat = "camera"

(***************************************************************************)
(* C3.  For a plan of N >= 1 variations outside a dry run, the host sees,  *)
(* for each variation in document order, one open_mainfile, then the       *)
(* variation's writes, then one settings application, then one render;     *)
(* the render of variation i precedes the reload of variation i + 1, no    *)
(* mutation is attempted twice, and the run ends after N reloads and N     *)
(* renders.                                                                *)
(***************************************************************************)
HostSteps == SelectSeq(trace, LAMBDA r : r.kind = "call" /\ r.what # "mutate")

StepCycle == <<"open_mainfile", "settings", "render">>

C3_ReloadMutateConfigureRenderPerVariation ==
    Normal =>
        /\ \A j \in 1..Len(HostSteps) :
              /\ HostSteps[j].what = StepCycle[((j - 1) % 3) + 1]
              /\ HostSteps[j].vi = ((j - 1) \div 3) + 1
        /\ Len(HostSteps) <= 3 * Len(plan.variations)
        /\ Finished => Len(HostSteps) = 3 * Len(plan.variations)
        /\ \A b \in 1..Len(trace) :
              (trace[b].kind = "call" /\ trace[b].what = "mutate") =>
                  /\ \E a \in 1..(b - 1) :
                        /\ trace[a].kind = "call" /\ trace[a].what = "open_mainfile"
                        /\ trace[a].vi = trace[b].vi
                  /\ \A a \in 1..(b - 1) :
                        trace[a].kind = "call" =>
                            /\ trace[a].vi <= trace[b].vi
                            /\ (trace[a].vi = trace[b].vi => trace[a].what \in {"open_mainfile", "mutate"})
                            /\ ~(trace[a].vi = trace[b].vi /\ trace[a].cat = trace[b].cat
                                 /\ trace[a].idx = trace[b].idx)

\* a run over two variations has returned 0
C3_Witness ==
    /\ Finished /\ Normal
    /\ Len(plan.variations) = 2
    /\ Len(SelectSeq(trace, LAMBDA r : r.kind = "call" /\ r.what = "render")) = 2
    /\ \E i \in 1..Len(trace) : trace[i].kind = "call" /\ trace[i].what = "mutate"

(***************************************************************************)
(* C4.  A dry run issues no host call at all (no reload, no scene write,   *)
(* no settings write, no render), leaves the scene and the rendered files  *)
(* as they were, and logs exactly one descriptive line per declared        *)
(* mutation, in the order variation by variation, category by category,    *)
(* entry by entry in which a normal run handles them.                      *)
(***************************************************************************)
LinesOfCategory(v, i, cat) ==
    [k \in Declared(v, cat) |-> <<i, cat, k>>]

LinesOfVariation(v, i) ==
    LinesOfCategory(v, i, "node_overrides") \o LinesOfCategory(v, i, "collection_visibility")
    \o LinesOfCategory(v, i, "visibility") \o LinesOfCategory(v, i, "translations")
    \o LinesOfCategory(v, i, "additions") \o LinesOfCategory(v, i, "camera")

RECURSIVE LinesFrom(_, _)
LinesFrom(p, i) ==
    IF i > Len(p.variations) THEN <<>>
    ELSE LinesOfVariation(p.variations[i], i) \o LinesFrom(p, i + 1)

DryRunLines ==
    LET d == SelectSeq(trace, LAMBDA r : r.kind = "log" /\ r.what = "dry-run")
    IN  [j \in 1..Len(d) |-> <<d[j].vi, d[j].cat, d[j].idx>>]

C4_DryRunOnlyLogs ==
    args.dry_run =>
        /\ Calls = <<>>
        /\ scene = StartupScene
        /\ files = <<>>
        /\ Len(DryRunLines) <= Len(LinesFrom(plan, 1))
        /\ DryRunLines = SubSeq(LinesFrom(plan, 1), 1, Len(DryRunLines))
        /\ Finished => DryRunLines = LinesFrom(plan, 1)

\* a dry run over two variations with several declared mutations has returned 0
C4_Witness ==
    /\ Finished /\ args.dry_run
    /\ Len(plan.variations) = 2
    /\ Len(DryRunLines) >= 5
    /\ \E j \in 1..Len(DryRunLines) : DryRunLines[j][2] = "camera"

(***************************************************************************)
(* C5.  A mutation naming a target the scene does not hold.                *)
(***************************************************************************)
Categories == Range(CategoryOrder)

\* entry i of category cat of variation v names a target missing from scene sc
MissingTarget(sc, p, v, cat, i) ==
    IF cat = "node_overrides"
    THEN LET o == v.node_overrides[i]
         IN  \/ o.material \notin DOMAIN sc.materials
             \/ /\ sc.materials[o.material].use_nodes
                /\ \/ o.node \notin DOMAIN sc.materials[o.material].nodes
                   \/ o.socket \notin DOMAIN sc.materials[o.material].nodes[o.node]
    ELSE IF cat = "collection_visibility" THEN v.collection_visibility[i].name \notin sc.lookup
    ELSE IF cat = "visibility" THEN <<v.visibility[i].name, 0>> \notin DOMAIN sc.objects
    ELSE IF cat = "translations" THEN <<v.translations[i].name, 0>> \notin DOMAIN sc.objects
    ELSE IF cat = "additions"
    THEN LET a == v.additions[i]
         IN  \/ Lower(a.primitive) \notin SupportedPrimitives
             \/ (a.hasMaterial /\ a.material # "" /\ a.material \notin DOMAIN sc.materials)
    ELSE <<p.camera_object, 0>> \notin DOMAIN sc.objects

\* the records the step has added to the trace
Added == SubSeq(trace', Len(trace) + 1, Len(trace'))

AddedFor(kind, what) ==
    \E j \in 1..Len(Added) :
        /\ Added[j].kind = kind /\ Added[j].what = what
        /\ Added[j].vi = vi /\ Added[j].cat = pc /\ Added[j].idx = mi

\* the step moves on to the entry declared next in the same variation, or to the
\* render settings of the variation when there is none
MovesOn ==
    LET lines == LinesOfVariation(Variation, vi)
        at == CHOOSE j \in 1..Len(lines) : lines[j] = <<vi, pc, mi>>
    IN  /\ vi' = vi
        /\ IF at = Len(lines) THEN pc' = "settings"
           ELSE <<vi', pc', mi'>> = lines[at + 1]

MissingStep == pc \in Categories /\ Normal /\ MissingTarget(scene, plan, Variation, pc, mi)

FoundStep == pc \in Categories /\ Normal /\ ~MissingTarget(scene, plan, Variation, pc, mi)

\* every variation was rendered and every declared entry was handled
AllHandled ==
    \A i \in 1..Len(plan.variations) :
        /\ \E j \in 1..Len(trace) :
              trace[j].kind = "call" /\ trace[j].what = "render" /\ trace[j].vi = i
        /\ \A c \in Categories : \A k \in Declared(plan.variations[i], c) :
              \E j \in 1..Len(trace) :
                  trace[j].vi = i /\ trace[j].cat = c /\ trace[j].idx = k

\* the two ways an entry with a missing target still writes to the scene: a
\* primitive of a supported kind is added without its missing material; a collection
\* override whose name the lookup does not find still reaches the layer collections
\* that wrap a collection of that name
WritesDespiteMissing ==
    \/ /\ pc = "additions"
       /\ Lower(Variation.additions[mi].primitive) \in SupportedPrimitives
    \/ /\ pc = "collection_visibility"
       /\ \E l \in 1..Len(scene.layers) : \E n \in DOMAIN scene.layers[l] :
             scene.layers[l][n].collection = Variation.collection_visibility[mi].name

Loaded == pc # "main"

ListFields == {"node_overrides", "translations", "additions", "collection_visibility",
               "visibility"}

RequiredKeys(field) ==
    IF field = "node_overrides" THEN {"material", "node", "socket", "value"}
    ELSE IF field = "additions" THEN {}
    ELSE {"name"}

\* a variation entry whose shape is wrong: not a mapping, a mutation list that is no
\* list, or a mutation entry without a required key
MalformedVariation(v) ==
    \/ v.k # "map"
    \/ \E f \in ListFields :
          \/ v[f].k \in {"str", "map", "int"}
          \/ /\ v[f].k = "list"
             /\ \E i \in 1..Len(v[f].items) :
                   v[f].items[i].k = "map" /\ ~(RequiredKeys(f) \subseteq v[f].items[i].has)

MalformedDocument(d) ==
    d.k = "map" /\ \E i \in 1..Len(d.variations) : MalformedVariation(d.variations[i])

\* C6 as stated: whenever a variation of the document is malformed,
\* load_plan_from_file raises PlanValidationError and returns no plan.
C6_MalformedVariationRaisesValidationError ==
    (Loaded /\ MalformedDocument(doc)) => (raised = "PlanValidationError" /\ plan = EmptyPlan)

Directories == {<<>>, <<"a">>, <<"a", "b">>, <<"w">>}

PlanDocumentMissing(a) == Normalize(Join(Cwd, a.plan).parts) \notin FileSystem

\* an empty document (null) counts as an empty mapping
RootNotMapping(d) == d.k \notin {"map", "null"}

\* the scene path the command line or the document supplies, made absolute against
\* the directory of the plan document
SuppliedScene(a, d) ==
    IF a.blend.some THEN {a.blend.p}
    ELSE IF d.k = "map" /\ d.blend_path.k = "str" THEN {d.blend_path.p}
    ELSE {}

SceneFileMissing(a, d) ==
    \A sp \in SuppliedScene(a, d) :
        LET at == IF sp.abs THEN Normalize(sp.parts)
                  ELSE Normalize(Parent(Resolve(a.plan)).parts \o sp.parts)
        IN  at \notin (FileSystem \ Directories)

NotThree(value) == value.k = "seq" /\ Len(value.v) # 3

BadVector(d) ==
    /\ d.k = "map"
    /\ \E i \in 1..Len(d.variations) :
          LET v == d.variations[i]
          IN  /\ v.k = "map"
              /\ \/ /\ v.translations.k = "list"
                    /\ \E j \in 1..Len(v.translations.items) :
                          LET e == v.translations.items[j]
                          IN  e.k = "map" /\ "offset" \in e.has /\ NotThree(e.offset)
                 \/ /\ v.additions.k = "list"
                    /\ \E j \in 1..Len(v.additions.items) :
                          LET e == v.additions.items[j]
                          IN  /\ e.k = "map"
                              /\ \/ ("location" \in e.has /\ NotThree(e.location))
                                 \/ ("rotation" \in e.has /\ NotThree(e.rotation))
                                 \/ ("scale" \in e.has /\ NotThree(e.scale))
                 \/ /\ v.camera.k = "map"
                    /\ \/ ("location" \in v.camera.has /\ NotThree(v.camera.location))
                       \/ ("rotation_euler" \in v.camera.has /\ NotThree(v.camera.rotation_euler))

\* C7 as stated: load_plan_from_file raises PlanValidationError and returns no plan
\* whenever the plan document is missing, its root is no mapping, the scene file does
\* not exist (no scene path supplied included) or a vector has not 3 components.
C7_MissingOrBadInputRaisesValidationError ==
    (Loaded /\ (\/ PlanDocumentMissing(args)
                \/ RootNotMapping(doc)
                \/ SceneFileMissing(args, doc)
                \/ BadVector(doc)))
        => (raised = "PlanValidationError" /\ plan = EmptyPlan)

FailsValidation ==
    \/ PlanDocumentMissing(args) \/ RootNotMapping(doc) \/ SceneFileMissing(args, doc)
    \/ BadVector(doc) \/ MalformedDocument(doc)

\* every variation of the plan has been through its render step
EveryVariationProcessed ==
    \A i \in 1..Len(plan.variations) :
        \E j \in 1..Len(trace) :
            trace[j].what \in {"render", "dry-run-render"} /\ trace[j].vi = i

\* C8 as stated: main returns 2 whenever the plan fails validation, without any host
\* interaction; it returns 0 only after every variation has been processed.
C8_ExitCodeTwoOnValidationFailure ==
    /\ (Loaded /\ FailsValidation) => (pc = "exit" /\ exitCode = 2 /\ Calls = <<>>)
    /\ exitCode = 0 => EveryVariationProcessed

(***************************************************************************)
(* C9.  The extension of the render path.                                  *)
(***************************************************************************)
ExrNames == {<<"o", "p", "e", "n", "_", "e", "x", "r">>, <<"e", "x", "r">>}

DotExr == <<".", "e", "x", "r">>

RenderedFormat == EffectiveSettings(plan, Variation).file_format

SettingsWritten == pc = "render" /\ Normal

\* C9 as stated: the extension is .exr for open_exr / exr, and otherwise "." followed
\* by the lowercased format, whatever the format is.
C9_Original_ExtensionIsLowercasedFormat ==
    SettingsWritten =>
        scene.render.filepath.suffix =
            (IF Lower(RenderedFormat) \in ExrNames THEN DotExr ELSE <<".">> \o Lower(RenderedFormat))

\* C9 (amended): the extension is .exr for open_exr / exr; "." followed by the
\* lowercased format when that is png, jpeg, jpg or tiff; and .png for every other
\* format.
C9_ExtensionOfKnownFormatsElsePng ==
    SettingsWritten =>
        scene.render.filepath.suffix =
            (IF Lower(RenderedFormat) \in ExrNames THEN DotExr
             ELSE IF Lower(RenderedFormat) \in {<<"p", "n", "g">>, <<"j", "p", "e", "g">>,
                                               <<"j", "p", "g">>, <<"t", "i", "f", "f">>}
             THEN <<".">> \o Lower(RenderedFormat)
             ELSE <<".", "p", "n", "g">>)

\* the settings of a BMP render have been written; its path ends in .png
C9_Witness ==
    /\ SettingsWritten
    /\ RenderedFormat = <<"B", "M", "P">>
    /\ scene.render.filepath.suffix = <<".", "p", "n", "g">>

(***************************************************************************)
(* C10.  One image file per variation.                                     *)
(***************************************************************************)
\* C10 as stated: in a finished run every variation was rendered to a path of its
\* own, so the run leaves as many files as the plan has variations.
C10_DistinctVariationsDistinctFiles ==
    (Finished /\ Normal) =>
        /\ Len(files) = Len(plan.variations)
        /\ \A i, j \in 1..Len(files) : i # j => files[i][1] # files[j][1]

(***************************************************************************)
(* C11.  Render settings a variation does not declare.                     *)
(***************************************************************************)
SettingsFields == {"engine", "samples", "resolution_x", "resolution_y", "use_denoise",
                   "file_format", "color_mode"}

\* the fields the render_settings mapping of variation i of the document declares
DeclaredSettings(d, i) ==
    IF d.variations[i].render_settings.k = "map" THEN d.variations[i].render_settings.has
    ELSE {}

\* the settings C11 expects for variation i: the variation's value for each field it
\* declares, the plan's base value for every other field
InheritedSettings(d, p, i) ==
    [f \in SettingsFields |->
        IF f \in DeclaredSettings(d, i) THEN d.variations[i].render_settings.val[f]
        ELSE p.base_render_settings[f]]

SettingsChosen == pc \in {"settings", "render"}

\* C11 as stated: the settings that configure and name the render of a variation hold
\* the variation's own value for each field it declares and the plan's base value for
\* every field it does not declare.
C11_UndeclaredFieldsInheritPlanBase ==
    SettingsChosen =>
        /\ EffectiveSettings(plan, Variation) = InheritedSettings(doc, plan, vi)
        /\ (pc = "render" /\ Normal) =>
              /\ scene.render.engine = InheritedSettings(doc, plan, vi).engine
              /\ scene.render.color_mode = InheritedSettings(doc, plan, vi).color_mode
              /\ scene.render.filepath =
                    _build_render_path(plan.output_dir, Variation.name,
                                       InheritedSettings(doc, plan, vi))

(***************************************************************************)
(* C12.  One VariationConfig per declared variation, names defaulted.      *)
(***************************************************************************)
PlanReturned == pc # "main" /\ raised = "none"

\* variation_ followed by i as three digits, for i below ten
GeneratedName(i) ==
    <<"v", "a", "r", "i", "a", "t", "i", "o", "n", "_", "0", "0">> \o <<DigitChars[i + 1]>>

\* the lists of variation i of the plan are as long as the document declares them
SameEntries(d, p, i) ==
    \A f \in ListFields : Len(p.variations[i][f]) = Len(d.variations[i][f].items)

\* C12 as stated: every variation that has a name key keeps the value of the key.
C12_Original_DeclaredNameKept ==
    PlanReturned =>
        /\ Len(plan.variations) = Len(doc.variations)
        /\ \A i \in 1..Len(plan.variations) :
              /\ SameEntries(doc, plan, i)
              /\ plan.variations[i].name =
                    (IF doc.variations[i].hasName THEN doc.variations[i].name
                     ELSE GeneratedName(i - 1))

\* C12 (amended): load_plan_from_file returns one VariationConfig per declared
\* variation, in document order; a variation that declares a non-empty name keeps it;
\* a variation without a name, or with an empty one, at zero-based position i gets
\* variation_ followed by i zero-padded to three digits.
C12_OnePerVariationNamesDefaulted ==
    PlanReturned =>
        /\ Len(plan.variations) = Len(doc.variations)
        /\ \A i \in 1..Len(plan.variations) :
              /\ SameEntries(doc, plan, i)
              /\ plan.variations[i].name =
                    (IF doc.variations[i].hasName /\ doc.variations[i].name # <<>>
                     THEN doc.variations[i].name
                     ELSE GeneratedName(i - 1))

\* a plan was returned whose first variation is named and whose second, unnamed,
\* is called variation_001
C12_Witness ==
    /\ PlanReturned
    /\ Len(doc.variations) = 2
    /\ doc.variations[1].hasName /\ plan.variations[1].name = doc.variations[1].name
    /\ ~doc.variations[2].hasName
    /\ plan.variations[2].name =
          <<"v", "a", "r", "i", "a", "t", "i", "o", "n", "_", "0", "0", "1">>

(***************************************************************************)
(* C13.  A translation is a relative move.                                 *)
(***************************************************************************)
\* the component-wise sum of the offsets of the first n translations of l that name
\* the object called name
RECURSIVE SumOffsets(_, _, _)
SumOffsets(l, name, n) ==
    IF n = 0 THEN <<0, 0, 0>>
    ELSE LET rest == SumOffsets(l, name, n - 1)
         IN  IF l[n].name = name THEN [i \in 1..3 |-> rest[i] + l[n].offset[i]] ELSE rest

TranslationStep == pc = "translations" /\ Normal

\* C13: a step of _translate_objects (not a dry run) leaves the named object, when it
\* exists, at its previous position plus the offset, and every other object as it
\* was; after the step every object of the loaded scene is at its loaded position
\* plus the sum of the offsets of the translations applied to it so far.
C13_TranslationIsRelativeAndAccumulates ==
    [][TranslationStep =>
          LET t == Variation.translations[mi]
          IN  /\ DOMAIN scene'.objects = DOMAIN scene.objects
              /\ \A k \in DOMAIN scene.objects :
                    IF k = Key(t.name)
                    THEN /\ scene'.objects[k].location =
                               [i \in 1..3 |-> scene.objects[k].location[i] + t.offset[i]]
                         /\ [scene'.objects[k] EXCEPT !.location = <<0, 0, 0>>] =
                               [scene.objects[k] EXCEPT !.location = <<0, 0, 0>>]
                    ELSE scene'.objects[k] = scene.objects[k]
              /\ \A k \in DOMAIN BaseScene.objects :
                    scene'.objects[k].location =
                        [i \in 1..3 |-> BaseScene.objects[k].location[i]
                                           + SumOffsets(Variation.translations, k[1], mi)[i]]]_vars

\* two translations of the cube loaded at (1, 2, 3), by (1, 0, 0) and (0, 2, 0), have
\* been applied: the cube is at (2, 4, 3)
C13_Witness ==
    /\ Normal
    /\ pc = "additions"
    /\ Len(Variation.translations) = 2
    /\ \A i \in 1..2 : Variation.translations[i].name = "Cube"
    /\ Variation.translations[1].offset # Variation.translations[2].offset
    /\ BaseScene.objects[Key("Cube")].location = <<1, 2, 3>>
    /\ scene.objects[Key("Cube")].location = <<2, 4, 3>>

(***************************************************************************)
(* C14.  Object visibility up to the render call, and the file of `on`.    *)
(***************************************************************************)
\* the visibility overrides of the current variation that have been applied
AppliedVisibility ==
    IF ~Normal \/ pc \in {"main", "exec", "reload", "node_overrides", "collection_visibility",
                          "raised", "return", "exit"}
    THEN {}
    ELSE IF pc = "visibility" THEN 1..(mi - 1)
    ELSE 1..Len(Variation.visibility)

OnPng(p, v) == v.name = <<"o", "n">> /\ EffectiveSettings(p, v).file_format = PNG

\* C14: once an object-visibility override of an existing object has been applied,
\* the object's hide_render and hide_viewport both equal (not visible), up to and at
\* the render call, unless a later applied override of the variation names the same
\* object; every render of a variation named on with format PNG goes to
\* <output_dir>/on.png.
C14_HideFlagsHoldUntilRenderAndOnPng ==
    /\ \A i \in AppliedVisibility :
          LET o == Variation.visibility[i]
          IN  (/\ Key(o.name) \in DOMAIN BaseScene.objects
               /\ ~\E j \in AppliedVisibility : j > i /\ Variation.visibility[j].name = o.name)
              => /\ scene.objects[Key(o.name)].hide_render = ~o.visible
                 /\ scene.objects[Key(o.name)].hide_viewport = ~o.visible
    /\ \A k \in 1..Len(files) :
          OnPng(plan, plan.variations[files[k][2]]) =>
              files[k][1] = [dir |-> plan.output_dir, stem |-> <<"o", "n">>,
                             suffix |-> <<".", "p", "n", "g">>]
    /\ (Finished /\ Normal) =>
          \A i \in 1..Len(plan.variations) :
              OnPng(plan, plan.variations[i]) => \E k \in 1..Len(files) : files[k][2] = i

\* the scenario: scene cube.blend, output directory out, one variation on that makes
\* the light, hidden in the scene file, visible; both hide flags of the light are
\* false at the render call
C14_Witness ==
    /\ pc = "render" /\ Normal
    /\ Len(plan.variations) = 1
    /\ Variation.name = <<"o", "n">>
    /\ Variation.visibility = <<[name |-> "Light", visible |-> TRUE]>>
    /\ BaseScene.objects[Key("Light")].hide_render
    /\ BaseScene.objects[Key("Light")].hide_viewport
    /\ ~scene.objects[Key("Light")].hide_render
    /\ ~scene.objects[Key("Light")].hide_viewport
    /\ scene.render.filepath = [dir |-> Abs(<<"a", "b", "out">>), stem |-> <<"o", "n">>,
                               suffix |-> <<".", "p", "n", "g">>]

(***************************************************************************)
(* C15.  A plan without variations.                                        *)
(***************************************************************************)
NoVariations == PlanReturned /\ plan.variations = <<>>

\* C15: when the plan has no variation, execute_render_plan logs one warning and
\* returns: in dry-run and in normal mode nothing else is logged, no host call is
\* made (no reload, mutation, settings write or render), the scene is untouched and
\* no file is rendered.
C15_NoVariationsNothingDone ==
    NoVariations =>
        /\ pc \in {"exec", "return", "exit"}
        /\ trace = (IF pc = "exec" THEN <<>>
                    ELSE <<LogRec("WARNING", "no-variations", 0, "", 0)>>)
        /\ Calls = <<>>
        /\ scene = StartupScene
        /\ files = <<>>
        /\ pc = "exit" => exitCode = 0

\* a normal run over a plan without variations has ended
C15_Witness ==
    /\ NoVariations /\ Normal /\ Finished
    /\ trace = <<LogRec("WARNING", "no-variations", 0, "", 0)>>

(***************************************************************************)
(* C16.  What _configure_render_settings writes.                           *)
(***************************************************************************)
SettingsStep == pc = "settings" /\ Normal

RecognizedEngines == {"CYCLES", "BLENDER_EEVEE"}

\* the render block holds the settings s and the path of the current variation
RenderBlockWritten(s) ==
    scene'.render = [engine |-> s.engine,
                     filepath |-> _build_render_path(plan.output_dir, Variation.name, s),
                     file_format |-> s.file_format,
                     color_mode |-> s.color_mode,
                     resolution_x |-> s.resolution_x,
                     resolution_y |-> s.resolution_y]

\* nothing of the scene but the render block and the engines' blocks changes
OnlySettingsChange ==
    [scene' EXCEPT !.render = scene.render, !.cycles = scene.cycles, !.eevee = scene.eevee] = scene

\* C16 as stated: for every recognized engine both the sample count and the denoise
\* flag are written, for every other engine neither.
C16_Original_SamplesAndDenoiseForRecognizedEngines ==
    [][SettingsStep =>
          LET s == EffectiveSettings(plan, Variation)
          IN  /\ RenderBlockWritten(s)
              /\ OnlySettingsChange
              /\ IF s.engine \in RecognizedEngines
                 THEN /\ (scene'.cycles.samples = s.samples \/ scene'.eevee.taa_samples = s.samples)
                      /\ scene'.cycles.use_denoising = s.use_denoise
                 ELSE scene'.cycles = scene.cycles /\ scene'.eevee = scene.eevee]_vars

\* C16 (amended): _configure_render_settings always writes engine, output path, image
\* format, color mode and both resolution components; when the engine is exactly
\* CYCLES and the host scene has Cycles settings it writes the sample count and the
\* denoise flag; when it is exactly BLENDER_EEVEE and the host scene has Eevee
\* settings it writes the sample count alone; in every other case it writes neither.
C16_SamplesPerEngineDenoiseForCyclesOnly ==
    [][SettingsStep =>
          LET s == EffectiveSettings(plan, Variation)
          IN  /\ RenderBlockWritten(s)
              /\ OnlySettingsChange
              /\ scene'.cycles = (IF s.engine = "CYCLES" /\ args.host.cycles
                                  THEN [samples |-> s.samples, use_denoising |-> s.use_denoise]
                                  ELSE scene.cycles)
              /\ scene'.eevee = (IF s.engine = "BLENDER_EEVEE" /\ args.host.eevee
                                 THEN [taa_samples |-> s.samples]
                                 ELSE scene.eevee)]_vars

\* the settings of an Eevee render have been written: the sample count is in the
\* Eevee block, the denoise flag of the settings is nowhere in the scene
C16_Witness ==
    /\ pc = "render" /\ Normal
    /\ EffectiveSettings(plan, Variation).engine = "BLENDER_EEVEE"
    /\ scene.render.engine = "BLENDER_EEVEE"
    /\ scene.eevee.taa_samples = EffectiveSettings(plan, Variation).samples
    /\ scene.eevee # BaseScene.eevee
    /\ scene.cycles = BaseScene.cycles
    /\ scene.cycles.use_denoising # EffectiveSettings(plan, Variation).use_denoise

(***************************************************************************)
(* C17.  Relative paths and overrides.                                     *)
(***************************************************************************)
\* the directory that holds the plan document
PlanDir == Parent(Resolve(args.plan))

\* a path as it is when a relative one is taken from the plan's directory
AgainstPlanDir(p) == IF p.abs THEN p ELSE P(TRUE, Normalize(PlanDir.parts \o p.parts))

\* the path a key of the document declares, or the default of the key
DeclaredPath(field, default) == IF field.k = "str" THEN field.p ELSE default

DocumentLoaded == PlanReturned /\ doc.k = "map"

\* C17 as stated: whenever an override is given, it replaces the document's value.
C17_Original_OverrideAlwaysReplaces ==
    DocumentLoaded =>
        /\ plan.blend_path =
              AgainstPlanDir(IF args.blend.some THEN args.blend.p
                             ELSE DeclaredPath(doc.blend_path, Rel(<<>>)))
        /\ plan.output_dir =
              AgainstPlanDir(IF args.output.some THEN args.output.p
                             ELSE DeclaredPath(doc.output_dir, Rel(<<"render_output">>)))

\* C17 (amended): every relative scene path and output directory of the document is
\* resolved against the directory of the plan document, not the working directory;
\* a non-empty override replaces the document's value (and, when relative, is
\* resolved against the plan's directory too); an empty override leaves the
\* document's value in place.
C17_PathsAgainstPlanDirNonEmptyOverrideWins ==
    DocumentLoaded =>
        /\ plan.blend_path =
              AgainstPlanDir(IF args.blend.some /\ args.blend.p # Rel(<<>>) THEN args.blend.p
                             ELSE DeclaredPath(doc.blend_path, Rel(<<>>)))
        /\ plan.output_dir =
              AgainstPlanDir(IF args.output.some /\ args.output.p # Rel(<<>>) THEN args.output.p
                             ELSE DeclaredPath(doc.output_dir, Rel(<<"render_output">>)))
        /\ plan.blend_path.abs /\ plan.output_dir.abs

\* the document /a/b/plan.yaml declares the scene ../scene.blend and an output
\* directory; the plan holds /a/scene.blend and the overriding output directory
C17_Witness ==
    /\ DocumentLoaded
    /\ Resolve(args.plan) = Abs(<<"a", "b", "plan.yaml">>)
    /\ Cwd # PlanDir
    /\ ~args.blend.some
    /\ doc.blend_path = PStr(Rel(<<"..", "scene.blend">>))
    /\ plan.blend_path = Abs(<<"a", "scene.blend">>)
    /\ doc.output_dir = PStr(Rel(<<"..", "out">>))
    /\ args.output = Override(Rel(<<"renders">>))
    /\ plan.output_dir = Abs(<<"a", "b", "renders">>)

(***************************************************************************)
(* C18.  The traversal of the layer collections and what an override of an *)
(* existing collection leaves.                                             *)
(***************************************************************************)
OverrideDone == pc = "cv_done"

\* every node of the tree of each view layer was yielded exactly once, in the order
\* the operator _iter_layer_collections gives
EveryNodeOnce ==
    \A l \in 1..Len(loaded.layers) :
        /\ Len(yielded[l]) = Cardinality(DOMAIN loaded.layers[l])
        /\ Range(yielded[l]) = DOMAIN loaded.layers[l]
        /\ yielded[l] = _iter_layer_collections(loaded.layers[l])

\* the flags an override of the collection o.name has to leave
FlagsOfOverride(o) ==
    /\ \A l \in 1..Len(loaded.layers) :
          /\ DOMAIN scene.layers[l] = DOMAIN loaded.layers[l]
          /\ \A n \in DOMAIN loaded.layers[l] :
                IF loaded.layers[l][n].collection = o.name
                THEN scene.layers[l][n] = [loaded.layers[l][n] EXCEPT !.hide_viewport = ~o.visible,
                                                                       !.exclude = ~o.visible]
                ELSE scene.layers[l][n] = loaded.layers[l][n]
    /\ scene.collections[o.name] = [hide_viewport |-> ~o.visible, hide_render |-> ~o.visible]
    /\ \A c \in DOMAIN loaded.collections \ {o.name} : scene.collections[c] = loaded.collections[c]

\* C18: for every layer-collection tree the traversal ends, having yielded every node
\* exactly once (root included); after an override of an existing collection C every
\* layer collection that wraps C, in every view layer, at any depth and however often
\* C occurs, has hide_viewport and exclude equal to (not visible), C itself has
\* hide_viewport and hide_render equal to (not visible), and no layer collection
\* wrapping another collection, and no other collection, is changed.
C18_TraversalCompleteAndOverrideReachesEveryWrapper ==
    /\ <>OverrideDone
    /\ [](OverrideDone =>
            /\ EveryNodeOnce
            /\ scene = CollectionVisibilityBody(loaded, CurrentOverride).scene
            /\ CurrentOverride.name \in loaded.lookup => FlagsOfOverride(CurrentOverride))

\* the override of the existing collection C is done on a tree of four nodes in which
\* C is wrapped at two depths, below a node that wraps D
C18_Witness ==
    /\ OverrideDone
    /\ CurrentOverride.name \in loaded.lookup
    /\ Len(yielded[1]) = 4
    /\ loaded.layers[1][2].collection = "C"
    /\ loaded.layers[1][2].children = <<3>>
    /\ loaded.layers[1][3].collection = "D"
    /\ loaded.layers[1][3].children = <<4>>
    /\ loaded.layers[1][4].collection = "C"
    /\ scene.layers[1][4].exclude = ~CurrentOverride.visible
    /\ scene.layers[1][4].exclude # loaded.layers[1][4].exclude
    /\ scene.layers[1][3] = loaded.layers[1][3]

(***************************************************************************)
(* C19.  An override whose collection the lookup does not find.            *)
(***************************************************************************)
MissingCollectionWarned ==
    /\ CurrentOverride.name \notin loaded.lookup
    /\ \E i \in 1..Len(trace) : trace[i] = LogRec("WARNING", "missing", vi, "collection_visibility", mi)

\* C19: when a collection-visibility override names a collection the lookup does not
\* find, then after the warning is logged no hide_viewport, hide_render or exclude flag
\* of any collection or layer collection of any view layer differs from its value
\* before the override.
C19_MissingCollectionOverrideSkipped ==
    (OverrideDone /\ CurrentOverride.name \notin loaded.lookup) =>
        /\ MissingCollectionWarned
        /\ scene.collections = loaded.collections
        /\ scene.layers = loaded.layers

\* the part of C19 that the code keeps: the flags of everything that is not named by
\* the override are left alone, and nothing at all is written when no layer collection
\* wraps a collection of the name
C19_UnwrappedMissingCollectionSkipped ==
    (OverrideDone /\ CurrentOverride.name \notin loaded.lookup) =>
        /\ MissingCollectionWarned
        /\ \A c \in DOMAIN loaded.collections \ {CurrentOverride.name} :
              scene.collections[c] = loaded.collections[c]
        /\ \A l \in 1..Len(loaded.layers) : \A n \in DOMAIN loaded.layers[l] :
              loaded.layers[l][n].collection # CurrentOverride.name
                  => scene.layers[l][n] = loaded.layers[l][n]
        /\ (\A l \in 1..Len(loaded.layers) : \A n \in DOMAIN loaded.layers[l] :
                loaded.layers[l][n].collection # CurrentOverride.name) => scene = loaded

====
